---- MODULE Spec2Model ----
(***************************************************************************)
(* ecpprog: JTAG-tunnelled SPI flash programmer for Lattice ECP5/NX over   *)
(* an FTDI MPSSE bridge.  The model follows ecpprog_main (ecpprog.c) and   *)
(* the MPSSE transport (mpsse.c).  The JTAG TAP driver declared in jtag.h  *)
(* (jtag_init, jtag_go_to_state, jtag_tap_shift, jtag_error, jtag_deinit)  *)
(* is modelled from its contract in section 4.B of the specification: a    *)
(* thin layer that turns TAP operations into mpsse_xfer calls.             *)
(***************************************************************************)
EXTENDS Integers, Sequences, FiniteSets, TLC

VARIABLES
    opt,            \* the command line (argv), fixed for the run
    pc,             \* position in ecpprog_main
    exit_code,      \* return value of ecpprog_main, -1 while running
    file_size,      \* long file_size
    f_pos,          \* read position of FILE *f
    addr,           \* the loop variable addr of the running loop
    rc,             \* the last fread result of the running loop
    connected_device, \* connected_device.type
    jtag_state,     \* TAP state recorded by the JTAG driver
    m,              \* MPSSE transport globals and the FTDI device they drive
    io,             \* the most recent transport call and the USB I/O it made
    dev,            \* the SPI flash behind the FPGA bridge
    count,          \* flash_wait: int count
    polls,          \* flash_wait: busy bits of the last polls of this wait
    busyLeft,       \* busy answers the flash may still give in this wait
    waitRet,        \* where flash_wait returns to
    trace           \* commands issued so far, in order

vars == <<opt, pc, exit_code, file_size, f_pos, addr, rc, connected_device,
          jtag_state, m, io, dev, count, polls, busyLeft, waitRet, trace>>

-----------------------------------------------------------------------------
(* Bounds of the model *)

\* a command line departs from the default invocation in at most this many
\* respects (option letters, offset, size, block size, device, flash content)
MaxOpts == 2
\* at most this many busy answers of the flash within one flash_wait
MaxBusy == 2
\* the close/release counters of the FTDI device saturate here
MaxCount == 3

-----------------------------------------------------------------------------
(* Program constants *)

FC_WE == 6
FC_JEDECID == 159
FC_RD == 3
FC_PP == 2
FC_SE == 32
FC_BE32 == 82
FC_BE64 == 216
FC_CE == 199
FC_RSR1 == 5
FC_WSR1 == 1
FC_RSR2 == 53

\* JTAG instruction codes of lattice_cmds.h, section 4.E
ISC_ENABLE == 198
ISC_DISABLE == 38
ISC_ERASE == 14
LSC_RESET_CRC == 59
LSC_BITSTREAM_BURST == 122
LSC_REFRESH == 121
LSC_READ_STATUS == 60
READ_ID == 224
LSC_PROG_SPI == 58

EXIT_SUCCESS == 0
EXIT_FAILURE == 1

TYPE_NONE == 0
TYPE_ECP5 == 1
TYPE_NX == 2

\* 256-byte flash page of the programming loop
PageSize == 256
\* chunk of the read and verify loops
ChunkSize == 4096
\* chunk of the SRAM bitstream loop
SramChunk == 16384
\* int read_size = 256 * 1024
DefaultReadSize == 262144

STATE_TEST_LOGIC_RESET == "TEST_LOGIC_RESET"
STATE_RUN_TEST_IDLE == "RUN_TEST_IDLE"
STATE_SELECT_DR_SCAN == "SELECT_DR_SCAN"
STATE_CAPTURE_DR == "CAPTURE_DR"
STATE_SHIFT_DR == "SHIFT_DR"
STATE_EXIT1_DR == "EXIT1_DR"
STATE_PAUSE_DR == "PAUSE_DR"
STATE_EXIT2_DR == "EXIT2_DR"
STATE_UPDATE_DR == "UPDATE_DR"
STATE_SELECT_IR_SCAN == "SELECT_IR_SCAN"
STATE_CAPTURE_IR == "CAPTURE_IR"
STATE_SHIFT_IR == "SHIFT_IR"
STATE_EXIT1_IR == "EXIT1_IR"
STATE_PAUSE_IR == "PAUSE_IR"
STATE_EXIT2_IR == "EXIT2_IR"
STATE_UPDATE_IR == "UPDATE_IR"

TapStates ==
    { STATE_TEST_LOGIC_RESET, STATE_RUN_TEST_IDLE, STATE_SELECT_DR_SCAN,
      STATE_CAPTURE_DR, STATE_SHIFT_DR, STATE_EXIT1_DR, STATE_PAUSE_DR,
      STATE_EXIT2_DR, STATE_UPDATE_DR, STATE_SELECT_IR_SCAN, STATE_CAPTURE_IR,
      STATE_SHIFT_IR, STATE_EXIT1_IR, STATE_PAUSE_IR, STATE_EXIT2_IR,
      STATE_UPDATE_IR }

-----------------------------------------------------------------------------
(* Small helpers *)

Min(a, b) == IF a < b THEN a ELSE b

Pow2(k) == 2 ^ k

\* (uint8_t)x for x >= 0
U8(x) == x % 256

\* x >> k for x >= 0
Shr(x, k) == x \div Pow2(k)

\* x & ~mask on the bits of x, for x >= 0 and mask >= 0
RECURSIVE AndNot(_, _)
AndNot(x, mask) ==
    IF x = 0 THEN 0
    ELSE (x % 2) * (1 - (mask % 2)) + 2 * AndNot(x \div 2, mask \div 2)

Last(s) == s[Len(s)]

-----------------------------------------------------------------------------
(* JTAG -> SPI bit order *)

Bit(x, k) == (x \div Pow2(k)) % 2

\* a byte with its two nibbles exchanged
bit_reverse_nibbles(in) == (in % 16) * 16 + in \div 16

bit_reverse(in) ==
      (IF Bit(in, 0) = 1 THEN 128 ELSE 0)
    + (IF Bit(in, 1) = 1 THEN 64 ELSE 0)
    + (IF Bit(in, 2) = 1 THEN 32 ELSE 0)
    + (IF Bit(in, 3) = 1 THEN 16 ELSE 0)
    + (IF Bit(in, 4) = 1 THEN 8 ELSE 0)
    + (IF Bit(in, 5) = 1 THEN 4 ELSE 0)
    + (IF Bit(in, 6) = 1 THEN 2 ELSE 0)
    + (IF Bit(in, 7) = 1 THEN 1 ELSE 0)

\* the byte an SPI slave samples MSB-first from a byte the TAP shifts LSB-first
SpiByte(wire) ==
    LET b(k) == Bit(wire, k)
    IN  b(0) * 128 + b(1) * 64 + b(2) * 32 + b(3) * 16
      + b(4) * 8 + b(5) * 4 + b(6) * 2 + b(7)

-----------------------------------------------------------------------------
(* The IEEE 1149.1 TAP graph and the driver's TMS table *)

TapNext(s, tms) ==
    CASE s = STATE_TEST_LOGIC_RESET ->
            IF tms = 1 THEN STATE_TEST_LOGIC_RESET ELSE STATE_RUN_TEST_IDLE
      [] s = STATE_RUN_TEST_IDLE ->
            IF tms = 1 THEN STATE_SELECT_DR_SCAN ELSE STATE_RUN_TEST_IDLE
      [] s = STATE_SELECT_DR_SCAN ->
            IF tms = 1 THEN STATE_SELECT_IR_SCAN ELSE STATE_CAPTURE_DR
      [] s = STATE_CAPTURE_DR ->
            IF tms = 1 THEN STATE_EXIT1_DR ELSE STATE_SHIFT_DR
      [] s = STATE_SHIFT_DR ->
            IF tms = 1 THEN STATE_EXIT1_DR ELSE STATE_SHIFT_DR
      [] s = STATE_EXIT1_DR ->
            IF tms = 1 THEN STATE_UPDATE_DR ELSE STATE_PAUSE_DR
      [] s = STATE_PAUSE_DR ->
            IF tms = 1 THEN STATE_EXIT2_DR ELSE STATE_PAUSE_DR
      [] s = STATE_EXIT2_DR ->
            IF tms = 1 THEN STATE_UPDATE_DR ELSE STATE_SHIFT_DR
      [] s = STATE_UPDATE_DR ->
            IF tms = 1 THEN STATE_SELECT_DR_SCAN ELSE STATE_RUN_TEST_IDLE
      [] s = STATE_SELECT_IR_SCAN ->
            IF tms = 1 THEN STATE_TEST_LOGIC_RESET ELSE STATE_CAPTURE_IR
      [] s = STATE_CAPTURE_IR ->
            IF tms = 1 THEN STATE_EXIT1_IR ELSE STATE_SHIFT_IR
      [] s = STATE_SHIFT_IR ->
            IF tms = 1 THEN STATE_EXIT1_IR ELSE STATE_SHIFT_IR
      [] s = STATE_EXIT1_IR ->
            IF tms = 1 THEN STATE_UPDATE_IR ELSE STATE_PAUSE_IR
      [] s = STATE_PAUSE_IR ->
            IF tms = 1 THEN STATE_EXIT2_IR ELSE STATE_PAUSE_IR
      [] s = STATE_EXIT2_IR ->
            IF tms = 1 THEN STATE_UPDATE_IR ELSE STATE_SHIFT_IR
      [] OTHER ->
            IF tms = 1 THEN STATE_SELECT_DR_SCAN ELSE STATE_RUN_TEST_IDLE

IsShift(s) == s \in {STATE_SHIFT_DR, STATE_SHIFT_IR}

\* breadth-first search from the frontier: the TMS string of a shortest path
\* to `to` whose intermediate states are no Shift state
RECURSIVE ShortestTms(_, _, _)
ShortestTms(frontier, seen, to) ==
    IF \E x \in frontier : x.s = to
    THEN (CHOOSE x \in frontier : x.s = to).p
    ELSE LET step == { [s |-> TapNext(x.s, b), p |-> Append(x.p, b)] :
                         x \in { y \in frontier : Len(y.p) = 0 \/ ~IsShift(y.s) },
                         b \in {0, 1} }
             fresh == { x \in step : x.s \notin seen }
             pick  == { CHOOSE x \in fresh : x.s = t : t \in { y.s : y \in fresh } }
         IN  ShortestTms(pick, seen \cup { x.s : x \in pick }, to)

\* the pre-tabulated [from][to] -> TMS string
TmsTable ==
    [ from \in TapStates |->
        [ to \in TapStates |->
            ShortestTms({[s |-> from, p |-> <<>>]}, {from}, to) ] ]

\* a path that goes by Test-Logic-Reset whatever the current state
TmsPath_reset(from, to) ==
    IF from = to THEN <<>>
    ELSE <<1, 1, 1, 1, 1>> \o TmsTable[STATE_TEST_LOGIC_RESET][to]

TmsPath(from, to) == TmsTable[from][to]

-----------------------------------------------------------------------------
(* MPSSE transport (mpsse.c) *)

\* latency timer of the FTDI device before the run
InitialLatency == 16

\* the steps of mpsse_init that can fail, in order: 1 open, 2 reset, 3 purge,
\* 4 get latency, 5 set latency, 6 set bitmode, 7 purge, 8..14 the seven
\* mpsse_send_byte calls
InitSteps == 14

Sat(n) == Min(n, MaxCount)

NoIo == [fn |-> "none", err0 |-> 0, wr |-> FALSE, rd |-> FALSE]

\* mpsse.c globals and the device state they act on
MpsseInit ==
    [ mpsse_ftdic_open        |-> FALSE,
      mpsse_ftdic_latency_set |-> FALSE,
      mpsse_ftdi_latency      |-> 0,
      mpsse_error_last        |-> 0,
      handle                  |-> FALSE,            \* a USB handle is open
      latency                 |-> InitialLatency,   \* the device's latency timer
      latencyWrites           |-> {},               \* values written to it
      usbOpens                |-> 0,                \* successful ftdi_usb_open
      usbCloses               |-> 0,                \* ftdi_usb_close calls
      deinits                 |-> 0 ]               \* ftdi_deinit calls

\* reaches the device only through an open handle
ftdi_set_latency_timer(mm, v) ==
    IF mm.handle
    THEN [mm EXCEPT !.latency = v, !.latencyWrites = @ \cup {v}]
    ELSE mm

ftdi_usb_close(mm) == [mm EXCEPT !.handle = FALSE, !.usbCloses = Sat(@ + 1)]

\* mpsse_error without its test of mpsse_ftdic_latency_set
mpsse_error_restore(mm, status) ==
    LET m1 == [mm EXCEPT !.mpsse_error_last = status]
        m2 == IF m1.mpsse_ftdic_open
              THEN ftdi_usb_close(ftdi_set_latency_timer(m1, m1.mpsse_ftdi_latency))
              ELSE m1
    IN  [m2 EXCEPT !.deinits = Sat(@ + 1)]

mpsse_error(mm, status) ==
    LET m1 == [mm EXCEPT !.mpsse_error_last = status]
        m2 == IF m1.mpsse_ftdic_open
              THEN LET m3 == IF m1.mpsse_ftdic_latency_set
                             THEN ftdi_set_latency_timer(m1, m1.mpsse_ftdi_latency)
                             ELSE m1
                   IN  ftdi_usb_close(m3)
              ELSE m1
    IN  [m2 EXCEPT !.deinits = Sat(@ + 1)]

\* mpsse_xfer without its entry test of mpsse_error_last
mpsse_xfer_unguarded(mm, send_length, receive_length, o) ==
    IF send_length > 0 /\ o = "wfail"
    THEN [m  |-> mpsse_error(mm, 2),
          io |-> [fn |-> "xfer", err0 |-> mm.mpsse_error_last,
                  wr |-> TRUE, rd |-> FALSE]]
    ELSE IF receive_length > 0 /\ o = "rfail"
    THEN [m  |-> mpsse_error(mm, 2),
          io |-> [fn |-> "xfer", err0 |-> mm.mpsse_error_last,
                  wr |-> send_length > 0, rd |-> TRUE]]
    ELSE [m  |-> mm,
          io |-> [fn |-> "xfer", err0 |-> mm.mpsse_error_last,
                  wr |-> send_length > 0, rd |-> receive_length > 0]]

\* o is what libftdi does in this call: "ok", "wfail" (ftdi_write_data
\* returns short) or "rfail" (ftdi_read_data returns < 0)
mpsse_xfer(mm, send_length, receive_length, o) ==
    IF mm.mpsse_error_last # 0
    THEN [m  |-> mm,
          io |-> [fn |-> "xfer", err0 |-> mm.mpsse_error_last,
                  wr |-> FALSE, rd |-> FALSE]]
    ELSE mpsse_xfer_unguarded(mm, send_length, receive_length, o)

\* ftdi_write_data is called whatever mpsse_error_last is; ok: it returns 1
mpsse_send_byte(mm, ok) ==
    [m  |-> IF ok THEN mm ELSE mpsse_error(mm, 2),
     io |-> [fn |-> "send_byte", err0 |-> mm.mpsse_error_last,
             wr |-> TRUE, rd |-> FALSE]]

\* the seven configuration bytes, sent from step `from` on, x = [m, io] being
\* the state before; the send of step failStep fails, and the sends after it
\* (to a device that mpsse_error has closed) succeed iff `later`
RECURSIVE SendConfigBytes(_, _, _, _)
SendConfigBytes(x, from, failStep, later) ==
    IF from > InitSteps THEN x
    ELSE SendConfigBytes(
             mpsse_send_byte(x.m, from < failStep \/ (from > failStep /\ later)),
             from + 1, failStep, later)

\* mpsse_init returns 0 once the seven bytes have been sent
InitResult(x) == [m |-> x.m, io |-> x.io, ret |-> 0]

\* failStep = 0: every libftdi call succeeds
mpsse_init(mm, failStep, later) ==
    LET opened  == [mm EXCEPT !.mpsse_ftdic_open = TRUE, !.handle = TRUE,
                              !.usbOpens = Sat(@ + 1)]
        saved   == [opened EXCEPT !.mpsse_ftdi_latency = opened.latency]
        fast    == [ftdi_set_latency_timer(saved, 1)
                       EXCEPT !.mpsse_ftdic_latency_set = TRUE]
    IN  CASE failStep = 1 ->
                 [m |-> mpsse_error(mm, 2), io |-> NoIo, ret |-> -1]
          [] failStep \in {2, 3, 4} ->
                 [m |-> mpsse_error(opened, 2), io |-> NoIo, ret |-> -1]
          [] failStep = 5 ->
                 [m |-> mpsse_error(saved, 2), io |-> NoIo, ret |-> -1]
          [] failStep \in {6, 7} ->
                 [m |-> mpsse_error(fast, 2), io |-> NoIo, ret |-> -1]
          [] OTHER ->
                 InitResult(SendConfigBytes([m |-> fast, io |-> NoIo], 8,
                                            IF failStep = 0 THEN InitSteps + 1
                                            ELSE failStep, later))

\* mpsse_close without its ftdi_set_latency_timer call
mpsse_close_keep(mm) ==
    [ftdi_usb_close(mm) EXCEPT !.deinits = Sat(@ + 1)]

mpsse_close(mm) ==
    LET m1 == ftdi_usb_close(ftdi_set_latency_timer(mm, mm.mpsse_ftdi_latency))
    IN  [m1 EXCEPT !.deinits = Sat(@ + 1)]

-----------------------------------------------------------------------------
(* JTAG TAP driver (jtag.h), on a context k = [m, io, st, sh]: sh lists the *)
(* shifts of the operation under way                                       *)

\* the driver's context after the transport call x, in TAP state st
TapCtx(x, st, sh) == [m |-> x.m, io |-> x.io, st |-> st, sh |-> sh]

jtag_go_to_state(k, state, o) ==
    IF TmsPath(k.st, state) = <<>> THEN [k EXCEPT !.st = state]
    ELSE TapCtx(mpsse_xfer(k.m, Len(TmsPath(k.st, state)), 0, o), state, k.sh)

\* a shift of `bits` bits made in TAP state st; tdi: the bytes the caller
\* has put at the head of the input buffer
Shift(st, tdi, bits, must_be_end) ==
    [st |-> st, tdi |-> tdi, bits |-> bits, end |-> must_be_end]

jtag_tap_shift(k, tdi, bits, must_be_end, o) ==
    TapCtx(mpsse_xfer(k.m, (bits + 7) \div 8, (bits + 7) \div 8, o),
           IF must_be_end THEN TapNext(k.st, 1) ELSE k.st,
           Append(k.sh, Shift(k.st, tdi, bits, must_be_end)))

jtag_error(mm, status) == mpsse_error(mm, status)

jtag_deinit(mm) == mpsse_close(mm)

\* the bits of an operation started in context k reach the device
Seen(k, o) == k.m.mpsse_error_last = 0 /\ o # "wfail"

\* the program gets the device's answer (otherwise the buffer reads as zeros)
Answered(k, o) == k.m.mpsse_error_last = 0 /\ o = "ok"

-----------------------------------------------------------------------------
(* The SPI flash behind the FPGA's JTAG-to-SPI bridge *)

AddrSpace == Pow2(24)

\* content of the flash at byte address a
FlashByte(a) == ((a % AddrSpace) * 7 + 3) % 256

\* cs: a transaction is open (chip-select low); rd: it is a Read Data
\* transaction in its data phase; ptr: the next address it returns
DevIdle == [cs |-> FALSE, rd |-> FALSE, ptr |-> 0]

\* chip-select rises when the TAP leaves Shift-DR
DevLeave(d) == [d EXCEPT !.cs = FALSE, !.rd = FALSE]

NoBuf == [kind |-> "none", from |-> 0, skip |-> 0, rev |-> 0]
ZeroBuf == [kind |-> "zeros", from |-> 0, skip |-> 0, rev |-> 0]

\* the flash clocks in the wire bytes `wire` followed by n further bytes while
\* the TAP shifts DR; must_be_end: the TAP leaves Shift-DR on the last bit
FlashShift(d, wire, n, must_be_end) ==
    LET total  == Len(wire) + n
        opcode == IF Len(wire) > 0 THEN SpiByte(wire[1]) ELSE 0
        isRd   == ~d.cs /\ opcode = FC_RD /\ Len(wire) >= 4
        a      == SpiByte(wire[2]) * 65536 + SpiByte(wire[3]) * 256 + SpiByte(wire[4])
        d1     == IF isRd THEN [cs |-> TRUE, rd |-> TRUE, ptr |-> (a + total - 4) % AddrSpace]
                  ELSE IF d.cs /\ d.rd
                  THEN [d EXCEPT !.ptr = (@ + total) % AddrSpace]
                  ELSE [cs |-> TRUE, rd |-> FALSE, ptr |-> d.ptr]
        resp   == IF isRd THEN [kind |-> "flash", from |-> a, skip |-> 4, rev |-> 0]
                  ELSE IF d.cs /\ d.rd
                  THEN [kind |-> "flash", from |-> d.ptr, skip |-> 0, rev |-> 0]
                  ELSE [kind |-> "other", from |-> 0, skip |-> 0, rev |-> 0]
    IN  [dev |-> IF must_be_end THEN DevLeave(d1) ELSE d1, resp |-> resp]

\* byte i of a buffer: what the TAP captured LSB-first of the flash's
\* MSB-first answer, after rev bit reversals by the program
BufByte(buf, i) ==
    LET w == IF buf.kind = "flash" /\ i >= buf.skip
             THEN SpiByte(FlashByte(buf.from + i - buf.skip))
             ELSE 0
    IN  IF buf.rev = 1 THEN bit_reverse(w) ELSE w

-----------------------------------------------------------------------------
(* JTAG -> SPI functions, on a context k = [m, io, st, dev] *)

Tap(k) == [m |-> k.m, io |-> k.io, st |-> k.st, sh |-> <<>>]

ReverseAll(wire) == [i \in 1..Len(wire) |-> bit_reverse(wire[i])]

\* the shift of data[0..len) with the given last-bit behaviour, after the
\* buffer was bit-reversed and the TAP brought to state k1.st; bits: the bit
\* count passed to jtag_tap_shift
SpiResult(k, k1, k2, fl, data, bits, o) ==
    [m |-> k2.m, io |-> k2.io, st |-> k2.st, data |-> data, bits |-> bits,
     dev |-> IF Seen(k, o) THEN fl.dev ELSE k.dev,
     buf |-> IF Answered(k, o) THEN [fl.resp EXCEPT !.rev = 1] ELSE ZeroBuf,
     tms |-> TmsPath(k.st, k1.st)]

SpiShift(k, k1, data, n, must_be_end, o) ==
    SpiResult(k, k1,
              jtag_tap_shift(k1, ReverseAll(data), (Len(data) + n) * 8,
                             must_be_end, o),
              FlashShift(k.dev, ReverseAll(data), n, must_be_end), data,
              (Len(data) + n) * 8, o)

\* an xfer_spi that stays in Shift-DR after the last bit
xfer_spi_stay(k, data, n, o) ==
    SpiShift(k,
             IF k.st # STATE_SHIFT_DR
             THEN jtag_go_to_state(Tap(k), STATE_SHIFT_DR, o)
             ELSE Tap(k),
             data, n, FALSE, o)

\* xfer_spi(data, len): data is the explicit head of the buffer, n the
\* number of bytes that follow it
xfer_spi(k, data, n, o) ==
    SpiShift(k,
             IF k.st # STATE_SHIFT_DR
             THEN jtag_go_to_state(Tap(k), STATE_SHIFT_DR, o)
             ELSE Tap(k),
             data, n, TRUE, o)

\* a send_spi that leaves Shift-DR on the last bit
send_spi_end(k, data, n, o) ==
    SpiShift(k, jtag_go_to_state(Tap(k), STATE_SHIFT_DR, o), data, n, TRUE, o)

send_spi(k, data, n, o) ==
    SpiShift(k, jtag_go_to_state(Tap(k), STATE_SHIFT_DR, o), data, n, FALSE, o)

Ctx(r) == [m |-> r.m, io |-> r.io, st |-> r.st, dev |-> r.dev]

\* an entry of the command trace: the SPI transfer op for address a, of the
\* explicit bytes r.data followed by n further bytes (file data for a page
\* program, zeros otherwise)
Entry(op, a, n, st0, r) ==
    [op |-> op, a |-> a, n |-> n, data |-> r.data, st0 |-> st0, tms |-> r.tms,
     st1 |-> r.st, buf |-> r.buf, bits |-> r.bits]

\* an entry for a step that is no SPI transfer
Mark(op, a, n) ==
    [op |-> op, a |-> a, n |-> n, data |-> <<>>, st0 |-> jtag_state,
     tms |-> <<>>, st1 |-> jtag_state, buf |-> NoBuf]

-----------------------------------------------------------------------------
(* The command line *)

\* the long options: long_options[] has --help alone
LongOptions == {"help"}

Letters ==
    {"r", "R", "e", "c", "S", "t", "b", "n", "p", "X", "a", "v"} \cup LongOptions

\* the option letters of the getopt_long string "d:i:I:rR:e:o:k:scbnStvpX"
OptString ==
    {"d", "i", "I", "r", "R", "e", "o", "k", "s", "c", "b", "n", "S", "t",
     "v", "p", "X"}

Offsets == {0, 100, 70000}
Sizes == {10, 0, 400, 4097, 20000}
BlockSizes == {64, 4, 32}
IdKinds == {TYPE_ECP5, TYPE_NX, TYPE_NONE}
\* index of the one file byte that differs from the flash, -1: none
DiffSet == {-1, 0, 4096}

B2N(b) == IF b THEN 1 ELSE 0

\* in how many respects a command line departs from `ecpprog <file>` with a
\* 10-byte file, an ECP5 on the chain and a flash that matches the file
\* (--help aside, which ends the run in the option loop)
Weight(c) ==
      Cardinality(c.flags \ LongOptions) + B2N(c.o # 0) + B2N(c.n # 10) + B2N(c.i # 64)
    + B2N(~c.has_file) + B2N(c.id # TYPE_ECP5) + B2N(c.diffAt # -1)

\* a parameter that the selected mode never looks at keeps its default: the
\* length without a file or a size argument, the block size without a block
\* erase, the differing byte without a verify pass; a length of more than one
\* 4096-byte chunk goes to the modes that work by such chunks or by blocks
\* (read, check, erase), and one of more than one 16 KiB chunk to SRAM
\* programming
Relevant(c) ==
    /\ c.n # 10 => c.has_file \/ c.flags \cap {"R", "e"} # {}
    /\ (c.n > ChunkSize /\ c.n <= SramChunk) =>
          c.flags \cap {"r", "R", "c", "e"} # {}
    /\ c.n > SramChunk => "S" \in c.flags
    /\ c.flags \cap LongOptions # {} =>
          /\ c.o = 0 /\ c.n = 10 /\ c.i = 64 /\ c.has_file
          /\ c.id = TYPE_ECP5 /\ c.diffAt = -1
    /\ c.i # 64 => c.flags \cap {"r", "R", "c", "S", "t", "b", "n"} = {}
    /\ c.diffAt # -1 =>
          c.has_file /\ c.flags \cap {"r", "R", "e", "S", "t", "X"} = {}

\* flags: option letters given; o: argument of -o; n: length of the input
\* file, or the argument of -R / -e; i: argument of -i; has_file: a file
\* name is given; id: the device on the chain; diffAt: see DiffSet
Configs ==
    { c \in [ flags    : { F \in SUBSET Letters :
                              Cardinality(F \ LongOptions) <= MaxOpts },
              o        : Offsets,
              n        : Sizes,
              i        : BlockSizes,
              has_file : BOOLEAN,
              id       : IdKinds,
              diffAt   : DiffSet ] : Weight(c) <= MaxOpts /\ Relevant(c) }

Given(x) == x \in opt.flags /\ x \in OptString

read_mode == Given("r") \/ Given("R")
check_mode == Given("c")
erase_mode == Given("e")
bulk_erase == Given("b")
dont_erase == Given("n")
prog_sram == Given("S")
test_mode == Given("t")
disable_protect == Given("p")
disable_verify == Given("X")
reinitialize == Given("a")
verbose == Given("v")
read_size == IF Given("R") THEN opt.n ELSE DefaultReadSize
erase_size == IF Given("e") THEN opt.n ELSE 0
erase_block_size == opt.i
rw_offset == opt.o

\* ModeError without its test that the modes exclude each other
ModeError_lax ==
    \/ bulk_erase /\ dont_erase
    \/ disable_protect /\ (read_mode \/ check_mode \/ prog_sram \/ test_mode)
    \/ bulk_erase /\ (read_mode \/ check_mode \/ prog_sram \/ test_mode)
    \/ dont_erase /\ (read_mode \/ check_mode \/ prog_sram \/ test_mode)
    \/ rw_offset # 0 /\ prog_sram
    \/ rw_offset # 0 /\ test_mode
    \/ opt.has_file /\ test_mode
    \/ ~opt.has_file /\ ~(bulk_erase \/ disable_protect)
         /\ ~test_mode /\ ~erase_mode /\ ~disable_protect

\* the checks of "Make sure that the combination of provided parameters
\* makes sense", up to the file name
ModeError ==
    \/ B2N(read_mode) + B2N(erase_mode) + B2N(check_mode) + B2N(prog_sram)
         + B2N(test_mode) > 1
    \/ bulk_erase /\ dont_erase
    \/ disable_protect /\ (read_mode \/ check_mode \/ prog_sram \/ test_mode)
    \/ bulk_erase /\ (read_mode \/ check_mode \/ prog_sram \/ test_mode)
    \/ dont_erase /\ (read_mode \/ check_mode \/ prog_sram \/ test_mode)
    \/ rw_offset # 0 /\ prog_sram
    \/ rw_offset # 0 /\ test_mode
    \/ opt.has_file /\ test_mode
    \/ ~opt.has_file /\ ~(bulk_erase \/ disable_protect)
         /\ ~test_mode /\ ~erase_mode /\ ~disable_protect

\* the checks of the option loop and ModeError: getopt_long reports a letter
\* that is not in its option string, and the default case returns
\* EXIT_FAILURE
ArgError ==
    \/ \E x \in opt.flags : x \notin OptString \cup LongOptions
    \/ ModeError

\* the exit status with which the run may end before jtag_init, {} if it
\* goes on: --help returns EXIT_SUCCESS from the option loop, unless a
\* letter getopt_long rejects stands before it on the command line
ExitAtParse ==
    IF "help" \in opt.flags
    THEN {EXIT_SUCCESS}
           \cup (IF \E x \in opt.flags : x \notin OptString \cup LongOptions
                 THEN {EXIT_FAILURE} ELSE {})
    ELSE IF ArgError THEN {EXIT_FAILURE} ELSE {}

\* length of the file f reads from: the input file, or /dev/null
FileLen == IF opt.has_file THEN opt.n ELSE 0

\* byte i of the input file
FileByte(i) ==
    IF i = opt.diffAt THEN (FlashByte(rw_offset + i) + 1) % 256
    ELSE FlashByte(rw_offset + i)

\* fread(buffer, 1, n, f) at position pos
fread(pos, n) == IF FileLen - pos < n THEN FileLen - pos ELSE n

-----------------------------------------------------------------------------
(* State *)

\* the state at the entry of ecpprog_main, for a command line of the set C
InitWith(C) ==
    /\ opt \in C
    /\ pc = "start"
    /\ exit_code = -1
    /\ file_size = -1
    /\ f_pos = 0
    /\ addr = 0
    /\ rc = 0
    /\ connected_device = TYPE_NONE
    /\ jtag_state = STATE_TEST_LOGIC_RESET
    /\ m = MpsseInit
    /\ io = NoIo
    /\ dev = DevIdle
    /\ count = 0
    /\ polls = <<>>
    /\ busyLeft = 0
    /\ waitRet = "none"
    /\ trace = <<>>

Init == InitWith(Configs)

K == [m |-> m, io |-> io, st |-> jtag_state, dev |-> dev]

SetCtx(r) ==
    /\ m' = r.m
    /\ io' = r.io
    /\ jtag_state' = r.st
    /\ dev' = r.dev

\* what libftdi may do in the transport calls of one step
Outcomes == IF m.mpsse_error_last = 0 THEN {"ok", "wfail", "rfail"} ELSE {"ok"}

UnchangedWait == UNCHANGED <<count, polls, busyLeft, waitRet>>

\* enter flash_wait, to return to ret
EnterWait(ret) ==
    /\ pc' = "wait"
    /\ waitRet' = ret
    /\ count' = 0
    /\ polls' = <<>>
    /\ busyLeft' = MaxBusy

-----------------------------------------------------------------------------
(* ECP5/NX JTAG functions, on a context k = [m, io, st, dev] *)

\* jtag_wait_time(n): n TCK cycles in the current state
jtag_wait_time(k, n, o) == TapCtx(mpsse_xfer(k.m, 3, 0, o), k.st, k.sh)

\* a TAP operation that leaves Shift-DR ends the flash transaction
AfterTap(k, t, o) ==
    [m |-> t.m, io |-> t.io, st |-> t.st, sh |-> t.sh,
     dev |-> IF Seen(k, o) /\ t.st # STATE_SHIFT_DR THEN DevLeave(k.dev) ELSE k.dev]

\* one IR scan of the 8 bits of cmd
ScanIR(t, cmd, o) ==
    jtag_tap_shift(jtag_go_to_state(t, STATE_SHIFT_IR, o), <<cmd>>, 8, TRUE, o)

\* one DR scan of `bits` bits of data that leaves Shift-DR on the last bit
ScanDR(t, data, bits, o) ==
    jtag_tap_shift(jtag_go_to_state(t, STATE_SHIFT_DR, o), data, bits, TRUE, o)

\* jtag_go_to_state(STATE_RUN_TEST_IDLE); jtag_wait_time(32)
IdleAndWait(t, o) ==
    jtag_wait_time(jtag_go_to_state(t, STATE_RUN_TEST_IDLE, o), 32, o)

ecp_jtag_cmd(k, cmd, o) ==
    AfterTap(k, IdleAndWait(ScanIR(Tap(k), cmd, o), o), o)

ecp_jtag_cmd8(k, cmd, param, o) ==
    AfterTap(k, IdleAndWait(ScanDR(ScanIR(Tap(k), cmd, o), <<param>>, 8, o), o), o)

\* data[0] = 0xFE; data[1] = 0x68
enter_spi_background_mode(k, o) ==
    AfterTap(k, jtag_go_to_state(
                    ScanDR(ScanIR(Tap(k), LSC_PROG_SPI, o), <<254, 104>>, 16, o),
                    STATE_RUN_TEST_IDLE, o), o)

\* read_status_register with the 32-bit shift for every known device type
StatusBits_32(type) ==
    IF type \in {TYPE_ECP5, TYPE_NX} THEN 32 ELSE 0

\* bits of DR shifted by read_status_register for a device type, 0: none
StatusBits(type) ==
    IF type = TYPE_ECP5 THEN 32 ELSE IF type = TYPE_NX THEN 64 ELSE 0

\* the DR shift of read_status_register: none for an unknown device type
StatusShift(t, type, o) ==
    IF StatusBits(type) > 0
    THEN jtag_tap_shift(t, <<0>>, StatusBits(type), TRUE, o)
    ELSE t

read_status_register(k, type, o) ==
    AfterTap(k, StatusShift(jtag_go_to_state(ScanIR(Tap(k), LSC_READ_STATUS, o),
                                             STATE_SHIFT_DR, o),
                            type, o), o)

\* x | y for x, y >= 0
RECURSIVE BitOr(_, _)
BitOr(x, y) ==
    IF x = 0 THEN y
    ELSE IF y = 0 THEN x
    ELSE (IF x % 2 = 1 \/ y % 2 = 1 THEN 1 ELSE 0) + 2 * BitOr(x \div 2, y \div 2)

\* a uint32_t is kept as its two 16-bit halves, w = hi * 65536 + lo
Word(hi, lo) == [hi |-> hi, lo |-> lo]

\* (uint32_t)(byte << 24): the shift is made on an int, and for byte >= 0x80
\* its result 2^31 + ... does not fit; the two's complement builds give the
\* negative int of the same 32 bits, which the conversion for `|` with a
\* uint32_t turns into the value with the byte in bits 31..24
ByteShl24(byte) == Word((byte * 256) % 65536, 0)

\* w >> 8 for a uint32_t w
WordShr8(w) == Word(w.hi \div 256, (w.hi % 256) * 256 + w.lo \div 256)

\* w >> 8 for an int w: the sign bit is copied into the vacated bits
WordSar8(w) ==
    Word(w.hi \div 256 + (IF w.hi >= 32768 THEN 65280 ELSE 0),
         (w.hi % 256) * 256 + w.lo \div 256)

WordOr(v, w) == Word(BitOr(v.hi, w.hi), BitOr(v.lo, w.lo))

\* the loop body with idcode declared int
idcode_step_int(idcode, byte) == WordOr(ByteShl24(byte), WordSar8(idcode))

\* idcode = data[i] << 24 | idcode >> 8
idcode_step(idcode, byte) == WordOr(ByteShl24(byte), WordShr8(idcode))

\* for(int i = 0; i < 4; i++) from i on
RECURSIVE FormatFrom(_, _, _)
FormatFrom(idcode, data, i) ==
    IF i >= 4 THEN idcode
    ELSE FormatFrom(idcode_step(idcode, data[i + 1]), data, i + 1)

\* uint32_t idcode = 0 and the loop: the word passed to print_idcode
FormatIdcode(data) == FormatFrom(Word(0, 0), data, 0)

\* uint8_t data[4] = {READ_ID}; data[0] = 0 before the DR scan
read_idcode(k, o) ==
    AfterTap(k, ScanDR(ScanIR(Tap(k), READ_ID, o), <<0, 0, 0, 0>>, 32, o), o)

AllOnes == <<255, 255, 255, 255, 255, 255, 255, 255>>

\* the buffer after a shift of `bits` bits has stored its TDO bits in it:
\* whole bytes of the level tdo, the bits of a last partial byte in its low
\* bits with the unused high bits zero, the rest of the buffer as it was;
\* zeros if the transport did not answer
Captured(data, bits, tdo, answered) ==
    [i \in 1..Len(data) |->
        IF i <= bits \div 8 THEN (IF answered THEN tdo ELSE 0)
        ELSE IF i = bits \div 8 + 1 /\ bits % 8 # 0
        THEN (IF answered THEN tdo % Pow2(bits % 8) ELSE 0)
        ELSE data[i]]

\* the third scan of flash_reset, of the buffer d3
ResetScan3(k, t, d3, o) == AfterTap(k, ScanDR(t, d3, 8, o), o)

\* the second scan, of the buffer d2 that the first scan left
ResetScan2(k, t, d2, tdo, o) ==
    ResetScan3(k, ScanDR(t, d2, 2, o),
               Captured(d2, 2, tdo, Answered(t, o)), o)

\* flash_reset: three scans of the one buffer data[8], which each
\* jtag_tap_shift(data, data, ...) both sends and overwrites; tdo: the level
\* of the TDO line during the scans (0 or 255 for low or high)
flash_reset(k, tdo, o) ==
    ResetScan2(k, ScanDR(Tap(k), AllOnes, 64, o),
               Captured(AllOnes, 64, tdo, Answered(k, o)), tdo, o)

-----------------------------------------------------------------------------
(* Flash functions *)

Cmd(op, data, a, n) == [op |-> op, data |-> data, a |-> a, n |-> n]

\* a sequence of xfer_spi transactions; es: their trace entries
RECURSIVE XferSeq(_, _, _, _)
RECURSIVE XferRest(_, _, _, _, _, _)
XferSeq(k, cmds, o, acc) ==
    IF cmds = <<>> THEN [k |-> k, es |-> acc]
    ELSE XferRest(k, Head(cmds), xfer_spi(k, Head(cmds).data, Head(cmds).n, o),
                  Tail(cmds), o, acc)

\* the transactions that follow transaction c, whose result is r
XferRest(k, c, r, rest, o, acc) ==
    XferSeq(Ctx(r), rest, o, Append(acc, Entry(c.op, c.a, c.n, k.st, r)))

\* command byte and the three address bytes, bits 23..16, 15..8, 7..0
AddrCmd(opcode, a) == <<opcode, U8(Shr(a, 16)), U8(Shr(a, 8)), U8(a)>>

read_status_1 == Cmd("RSR1", <<FC_RSR1, 0>>, 0, 0)
read_status_2 == Cmd("RSR2", <<FC_RSR2, 0>>, 0, 0)
flash_read_status == <<read_status_1, read_status_2>>
flash_read_id == <<Cmd("JEDECID", <<FC_JEDECID, 0, 0, 0>>, 0, 0)>>

IfVerbose(cmds) == IF verbose THEN cmds ELSE <<>>

\* a write enable that is sent twice
flash_write_enable_twice ==
    <<Cmd("WE", <<FC_WE>>, 0, 0), Cmd("WE", <<FC_WE>>, 0, 0)>>

flash_write_enable ==
    IfVerbose(flash_read_status) \o <<Cmd("WE", <<FC_WE>>, 0, 0)>>
        \o IfVerbose(flash_read_status)

flash_bulk_erase == <<Cmd("CE", <<FC_CE>>, 0, 0)>>
flash_4kB_sector_erase(a) == <<Cmd("SE", AddrCmd(FC_SE, a), a, 0)>>
flash_32kB_sector_erase(a) == <<Cmd("BE32", AddrCmd(FC_BE32, a), a, 0)>>
flash_64kB_sector_erase(a) == <<Cmd("BE64", AddrCmd(FC_BE64, a), a, 0)>>

\* a block erase loop that always erases 64 KiB blocks
SectorErase_64(a) == flash_64kB_sector_erase(a)

\* the switch on erase_block_size of the block erase loop
SectorErase(a) ==
    CASE erase_block_size = 4 -> flash_4kB_sector_erase(a)
      [] erase_block_size = 32 -> flash_32kB_sector_erase(a)
      [] erase_block_size = 64 -> flash_64kB_sector_erase(a)
      [] OTHER -> <<>>

\* flash_prog(a, data, n): two trace entries, the command and the data
ProgResult(k, a, n, r1, r2) ==
    [k |-> Ctx(r2),
     es |-> <<Entry("PP", a, n, k.st, r1), Entry("DATA", a, n, r1.st, r2)>>]

\* xfer_spi(data, n) of flash_prog, after its send_spi gave r1
ProgData(k, a, n, r1, o) ==
    ProgResult(k, a, n, r1, xfer_spi(Ctx(r1), <<>>, n, o))

\* a flash_prog that sends its command with xfer_spi
flash_prog_xfer(k, a, n, o) ==
    ProgData(k, a, n, xfer_spi(k, AddrCmd(FC_PP, a), 0, o), o)

flash_prog(k, a, n, o) ==
    ProgData(k, a, n, send_spi(k, AddrCmd(FC_PP, a), 0, o), o)

ReadResult(op, k, a, n, r) ==
    [k |-> Ctx(r), es |-> <<Entry(op, a, n, k.st, r)>>, buf |-> r.buf]

flash_start_read(k, a, o) ==
    ReadResult("RD", k, a, 0, send_spi(k, AddrCmd(FC_RD, a), 0, o))

\* a continued read that is a transaction of its own
flash_continue_read_xfer(k, n, o) ==
    ReadResult("CONT", k, 0, n, xfer_spi(k, <<>>, n, o))

flash_continue_read(k, n, o) ==
    ReadResult("CONT", k, 0, n, send_spi(k, <<>>, n, o))

\* the block erase range of ecpprog_main
block_size == erase_block_size * 1024
block_mask == block_size - 1
begin_addr == AndNot(rw_offset, block_mask)
\* the end of the range rounded down instead of up
end_addr_down == AndNot(rw_offset + file_size, block_mask)
end_addr == AndNot(rw_offset + file_size + block_mask, block_mask)

\* page_size that ignores the offset within the page
page_size_whole(off, a) == PageSize

\* int page_size = 256 - (rw_offset + addr) % 256
page_size(off, a) == PageSize - ((off + a) % PageSize)

-----------------------------------------------------------------------------
(* ecpprog_main *)

\* an entry for a JTAG operation that ends in context r
JEntry(op, a, n, r) ==
    [op |-> op, a |-> a, n |-> n, data |-> <<>>, st0 |-> jtag_state,
     tms |-> <<>>, st1 |-> r.st, buf |-> NoBuf]

\* a JTAG step ends in context r and is logged
JStep(r, op, a, n) ==
    /\ SetCtx(r)
    /\ trace' = Append(trace, JEntry(op, a, n, r))

\* a flash step ends in context r.k; r.es are its trace entries
Step(r) ==
    /\ SetCtx(r.k)
    /\ trace' = trace \o r.es

\* where the flash branch goes after an optional protection disable
ReadVerifyEntry ==
    IF read_mode THEN "rd_start"
    ELSE IF ~erase_mode /\ ~disable_verify THEN "vf_start"
    ELSE "finish"

ProgEntry == IF ~erase_mode THEN "pg_first" ELSE ReadVerifyEntry

\* the erase left out, as though -n were given
EraseEntry_none == ProgEntry

EraseEntry ==
    IF ~dont_erase
    THEN (IF bulk_erase THEN "bulk_we" ELSE "blk_first")
    ELSE ProgEntry

\* the program branch entered whatever the mode
AfterReadId_prog == IF disable_protect THEN "p_we" ELSE EraseEntry

AfterReadId ==
    IF ~read_mode /\ ~check_mode
    THEN (IF disable_protect THEN "p_we" ELSE EraseEntry)
    ELSE ReadVerifyEntry

\* option parsing, the consistency checks and the opening of the file
ParseArgs ==
    /\ pc = "start"
    /\ IF ExitAtParse # {}
       THEN /\ pc' = "done"
            /\ exit_code' \in ExitAtParse
            /\ file_size' = file_size
       ELSE /\ pc' = "init"
            /\ exit_code' = exit_code
            /\ file_size' = IF test_mode THEN -1
                            ELSE IF erase_mode THEN erase_size
                            ELSE IF read_mode THEN read_size
                            ELSE IF ~prog_sram THEN FileLen
                            ELSE -1
    /\ UNCHANGED <<opt, f_pos, addr, rc, connected_device, jtag_state, m, io,
                   dev, trace>>
    /\ UnchangedWait

\* the state mpsse_init leaves
InitDone(r, failStep) ==
    /\ m' = r.m
    /\ io' = r.io
    /\ trace' = Append(trace, Mark("INIT", r.ret, failStep))

\* jtag_init(ifnum, devstr, clkdiv): mpsse_init, result ignored, and the
\* TAP state set to Test-Logic-Reset
JtagInit ==
    /\ pc = "init"
    /\ \E failStep \in 0..InitSteps :
       \E later \in (IF failStep \in 8..(InitSteps - 1) THEN BOOLEAN ELSE {TRUE}) :
         InitDone(mpsse_init(m, failStep, later), failStep)
    /\ jtag_state' = STATE_TEST_LOGIC_RESET
    /\ pc' = "idcode"
    /\ UNCHANGED <<opt, exit_code, file_size, f_pos, addr, rc,
                   connected_device, dev>>
    /\ UnchangedWait

ReadIdcode ==
    /\ pc = "idcode"
    /\ \E o \in Outcomes :
         /\ JStep(read_idcode(K, o), "IR", READ_ID, 32)
         /\ connected_device' = IF Answered(K, o) THEN opt.id ELSE TYPE_NONE
    /\ pc' = "status0"
    /\ UNCHANGED <<opt, exit_code, file_size, f_pos, addr, rc>>
    /\ UnchangedWait

ReadStatusRegister ==
    /\ pc \in {"status0", "s_status1", "s_status2"}
    /\ \E o \in Outcomes :
         JStep(read_status_register(K, connected_device, o),
               "IR", LSC_READ_STATUS, StatusBits(connected_device))
    /\ pc' = CASE pc = "status0" ->
                    IF test_mode THEN "t_enable"
                    ELSE IF prog_sram THEN "s_enable"
                    ELSE "f_enable"
               [] pc = "s_status1" -> "s_burst"
               [] OTHER -> "finish"
    /\ UNCHANGED <<opt, exit_code, file_size, f_pos, addr, rc, connected_device>>
    /\ UnchangedWait

\* the ecp_jtag_cmd8 calls of ecpprog_main: position -> command, next position
Cmd8At ==
       "t_enable"  :> [cmd |-> ISC_ENABLE, next |-> "t_erase"]
    @@ "t_erase"   :> [cmd |-> ISC_ERASE, next |-> "t_disable"]
    @@ "s_enable"  :> [cmd |-> ISC_ENABLE, next |-> "s_erase"]
    @@ "s_erase"   :> [cmd |-> ISC_ERASE, next |-> "s_crc"]
    @@ "s_crc"     :> [cmd |-> LSC_RESET_CRC, next |-> "s_status1"]
    @@ "f_enable"  :> [cmd |-> ISC_ENABLE, next |-> "f_erase"]
    @@ "f_erase"   :> [cmd |-> ISC_ERASE, next |-> "f_disable"]
    @@ "f_disable" :> [cmd |-> ISC_DISABLE, next |-> "f_bg"]

\* LSC_BITSTREAM_BURST and the ISC_DISABLE of SRAM programming exchanged
CmdAt_swapped ==
       "t_disable" :> [cmd |-> ISC_DISABLE, next |-> "t_bg"]
    @@ "s_burst"   :> [cmd |-> ISC_DISABLE, next |-> "s_chunk"]
    @@ "s_disable" :> [cmd |-> LSC_BITSTREAM_BURST, next |-> "s_status2"]

\* the ecp_jtag_cmd calls of ecpprog_main before the post-mode step
CmdAt ==
       "t_disable" :> [cmd |-> ISC_DISABLE, next |-> "t_bg"]
    @@ "s_burst"   :> [cmd |-> LSC_BITSTREAM_BURST, next |-> "s_chunk"]
    @@ "s_disable" :> [cmd |-> ISC_DISABLE, next |-> "s_status2"]

EcpJtagCmd8 ==
    /\ pc \in DOMAIN Cmd8At
    /\ \E o \in Outcomes :
         JStep(ecp_jtag_cmd8(K, Cmd8At[pc].cmd, 0, o), "IR", Cmd8At[pc].cmd, 8)
    /\ pc' = Cmd8At[pc].next
    /\ UNCHANGED <<opt, exit_code, file_size, f_pos, addr, rc, connected_device>>
    /\ UnchangedWait

EcpJtagCmd ==
    /\ pc \in DOMAIN CmdAt
    /\ \E o \in Outcomes :
         JStep(ecp_jtag_cmd(K, CmdAt[pc].cmd, o), "IR", CmdAt[pc].cmd, 0)
    /\ pc' = CmdAt[pc].next
    /\ UNCHANGED <<opt, exit_code, file_size, f_pos, addr, rc, connected_device>>
    /\ UnchangedWait

EnterSpiBackgroundMode ==
    /\ pc \in {"t_bg", "f_bg"}
    /\ \E o \in Outcomes :
         JStep(enter_spi_background_mode(K, o), "IR", LSC_PROG_SPI, 16)
    /\ pc' = IF pc = "t_bg" THEN "t_reset" ELSE "f_reset"
    /\ UNCHANGED <<opt, exit_code, file_size, f_pos, addr, rc, connected_device>>
    /\ UnchangedWait

\* the level of the TDO line while flash_reset shifts: low or high
TdoLevels == {0, 255}

FlashReset ==
    /\ pc \in {"t_reset", "f_reset"}
    /\ \E o \in Outcomes : \E tdo \in TdoLevels :
         JStep(flash_reset(K, tdo, o), "RESET", 0, 74)
    /\ pc' = IF pc = "t_reset" THEN "t_id" ELSE "f_id"
    /\ UNCHANGED <<opt, exit_code, file_size, f_pos, addr, rc, connected_device>>
    /\ UnchangedWait

\* a step that is a sequence of complete SPI transactions
SpiStep(cmds) ==
    \E o \in Outcomes : Step(XferSeq(K, cmds, o, <<>>))

FlashReadId ==
    /\ pc \in {"t_id", "f_id"}
    /\ SpiStep(flash_read_id)
    /\ pc' = IF pc = "t_id" THEN "t_status" ELSE AfterReadId
    /\ UNCHANGED <<opt, exit_code, file_size, f_pos, addr, rc, connected_device>>
    /\ UnchangedWait

FlashReadStatus ==
    /\ pc = "t_status"
    /\ SpiStep(flash_read_status)
    /\ pc' = "finish"
    /\ UNCHANGED <<opt, exit_code, file_size, f_pos, addr, rc, connected_device>>
    /\ UnchangedWait

FlashWriteEnable ==
    /\ pc \in {"p_we", "bulk_we", "blk_we", "pg_we"}
    /\ SpiStep(flash_write_enable)
    /\ pc' = CASE pc = "p_we" -> "p_wsr"
               [] pc = "bulk_we" -> "bulk_ce"
               [] pc = "blk_we" -> "blk_erase"
               [] OTHER -> "pg_prog"
    /\ UNCHANGED <<opt, exit_code, file_size, f_pos, addr, rc, connected_device>>
    /\ UnchangedWait

\* flash_disable_protection up to its flash_wait
DisableProtectionWrite ==
    /\ pc = "p_wsr"
    /\ SpiStep(<<Cmd("WSR1", <<FC_WSR1, 0>>, 0, 0)>>)
    /\ EnterWait("p_rb")
    /\ UNCHANGED <<opt, exit_code, file_size, f_pos, addr, rc, connected_device>>

\* values of Status Register 1 that the flash may give on the read-back:
\* cleared, or with its block protection bits still set
SrValues == {0, 28}

\* the read-back r gave the value sr in data[1]: the message for a value
\* other than 0x00 is logged
Readback(r, sr) ==
    /\ SetCtx(r.k)
    /\ trace' = trace \o r.es
            \o (IF sr # 0 THEN <<Mark("WARN", sr, 0)>> ELSE <<>>)

\* a read-back other than 0x00 ends the run
AfterReadback_fatal(sr) == IF sr # 0 THEN "finish" ELSE EraseEntry

\* flash_disable_protection returns whatever the read-back was
AfterReadback(sr) == EraseEntry

\* flash_disable_protection after its flash_wait
DisableProtectionReadback ==
    /\ pc = "p_rb"
    /\ \E o \in Outcomes : \E sr \in (IF Answered(K, o) THEN SrValues ELSE {0}) :
         /\ Readback(XferSeq(K, <<read_status_1>>, o, <<>>), sr)
         /\ pc' = AfterReadback(sr)
    /\ UNCHANGED <<opt, exit_code, file_size, f_pos, addr, rc, connected_device>>
    /\ UnchangedWait

FlashBulkErase ==
    /\ pc = "bulk_ce"
    /\ SpiStep(flash_bulk_erase)
    /\ EnterWait(ProgEntry)
    /\ UNCHANGED <<opt, exit_code, file_size, f_pos, addr, rc, connected_device>>

\* for (int addr = begin_addr; addr < end_addr; addr += block_size)
BlockLoop ==
    /\ pc \in {"blk_first", "blk_next"}
    /\ LET a0 == IF pc = "blk_first" THEN begin_addr ELSE addr + block_size
       IN  /\ addr' = a0
           /\ pc' = IF a0 < end_addr THEN "blk_we" ELSE ProgEntry
    /\ UNCHANGED <<opt, exit_code, file_size, f_pos, rc, connected_device,
                   jtag_state, m, io, dev, trace>>
    /\ UnchangedWait

FlashSectorErase ==
    /\ pc = "blk_erase"
    /\ SpiStep(SectorErase(addr) \o IfVerbose(flash_read_status))
    /\ EnterWait("blk_next")
    /\ UNCHANGED <<opt, exit_code, file_size, f_pos, addr, rc, connected_device>>

\* for (int rc, addr = 0; true; addr += rc): page size, fread, break test
ProgRead ==
    /\ pc \in {"pg_first", "pg_inc"}
    /\ LET a0 == IF pc = "pg_first" THEN 0 ELSE addr + rc
           n  == fread(f_pos, page_size(rw_offset, a0))
       IN  /\ addr' = a0
           /\ rc' = n
           /\ IF n <= 0
              THEN pc' = ReadVerifyEntry /\ f_pos' = 0
              ELSE pc' = "pg_we" /\ f_pos' = f_pos + n
    /\ UNCHANGED <<opt, exit_code, file_size, connected_device, jtag_state, m,
                   io, dev, trace>>
    /\ UnchangedWait

FlashProg ==
    /\ pc = "pg_prog"
    /\ \E o \in Outcomes : Step(flash_prog(K, rw_offset + addr, rc, o))
    /\ EnterWait("pg_inc")
    /\ UNCHANGED <<opt, exit_code, file_size, f_pos, addr, rc, connected_device>>

\* flash_wait that returns on the second idle poll
flash_wait_step_two(cnt, busy) ==
    IF busy = 0
    THEN (IF cnt < 1 THEN [count |-> cnt + 1, done |-> FALSE]
                     ELSE [count |-> cnt, done |-> TRUE])
    ELSE [count |-> 0, done |-> FALSE]

\* a flash_wait that returns on any poll, busy or not
flash_wait_step_any(cnt, busy) == [count |-> cnt, done |-> TRUE]

\* one iteration of the while (1) of flash_wait, given the busy bit read
flash_wait_step(cnt, busy) ==
    IF busy = 0
    THEN (IF cnt < 2 THEN [count |-> cnt + 1, done |-> FALSE]
                     ELSE [count |-> cnt, done |-> TRUE])
    ELSE [count |-> 0, done |-> FALSE]

\* the last three elements of a sequence
Last3(q) == IF Len(q) <= 3 THEN q ELSE SubSeq(q, Len(q) - 2, Len(q))

\* the loop state after a poll that read busy bit `busy`; the return of
\* flash_wait is logged with the busy bit of its last poll
WaitResult(busy, w) ==
    /\ count' = w.count
    /\ polls' = Last3(Append(polls, busy))
    /\ busyLeft' = IF w.done THEN 0 ELSE busyLeft - busy
    /\ pc' = IF w.done THEN waitRet ELSE "wait"
    /\ trace' = IF w.done THEN Append(trace, Mark("WAITED", busy, 0)) ELSE trace

\* one poll of flash_wait: Read Status Register 1, test of bit 0
FlashWaitPoll ==
    /\ pc = "wait"
    /\ \E o \in Outcomes :
       \E b \in (IF busyLeft > 0 /\ Answered(K, o) THEN {0, 1} ELSE {0}) :
         /\ SetCtx(xfer_spi(K, <<FC_RSR1, 0>>, 0, o))
         /\ WaitResult(b, flash_wait_step(count, b))
    /\ UNCHANGED <<opt, exit_code, file_size, f_pos, addr, rc, connected_device,
                   waitRet>>

\* flash_start_read(rw_offset) and the first loop test of the pass
FlashStartRead ==
    /\ pc \in {"rd_start", "vf_start"}
    /\ \E o \in Outcomes : Step(flash_start_read(K, rw_offset, o))
    /\ addr' = 0
    /\ pc' = IF pc = "rd_start"
             THEN (IF 0 < read_size THEN "rd_loop" ELSE "finish")
             ELSE (IF 0 < file_size THEN "vf_loop" ELSE "vf_ok")
    /\ UNCHANGED <<opt, exit_code, file_size, f_pos, rc, connected_device>>
    /\ UnchangedWait

\* an fwrite of the whole buffer whatever is left to read
WriteSize_chunk(a) == ChunkSize

\* size argument of the fwrite of the read loop
WriteSize(a) == IF read_size - a > ChunkSize THEN ChunkSize ELSE read_size - a

\* fwrite(buffer, n, 1, f) of the buffer that r filled
Fwrite(r, n) ==
    /\ SetCtx(r.k)
    /\ trace' = trace \o r.es
            \o <<[Mark("WRITE", addr, n) EXCEPT !.buf = r.buf]>>

\* one iteration of the read loop
ReadChunk ==
    /\ pc = "rd_loop"
    /\ \E o \in Outcomes :
         Fwrite(flash_continue_read(K, ChunkSize, o), WriteSize(addr))
    /\ addr' = addr + ChunkSize
    /\ pc' = IF addr + ChunkSize < read_size THEN "rd_loop" ELSE "finish"
    /\ UNCHANGED <<opt, exit_code, file_size, f_pos, rc, connected_device>>
    /\ UnchangedWait

\* the indices at which a chunk read at file position pos can differ
CmpIdx(pos, n) == {0, n - 1, opt.diffAt - pos} \cap (0..(n - 1))

\* memcmp(buffer_file, buffer_flash, n) != 0
memcmp(pos, buf, n) ==
    \E i \in CmpIdx(pos, n) : FileByte(pos + i) # BufByte(buf, i)

\* the comparison of the n bytes that r read with the file; jtag_error(3)
\* on a difference, logged with the last error before the call
Compare(r, n, diff) ==
    /\ m' = IF diff THEN jtag_error(r.k.m, 3) ELSE r.k.m
    /\ io' = r.k.io
    /\ jtag_state' = r.k.st
    /\ dev' = r.k.dev
    /\ trace' = trace \o r.es
            \o <<Mark("CMP", f_pos, n)>>
            \o (IF diff THEN <<Mark("ERR", 3, r.k.m.mpsse_error_last)>> ELSE <<>>)

CompareChunk(r, n) == Compare(r, n, memcmp(f_pos, r.buf, n))

\* one iteration of the verify loop
VerifyChunk ==
    /\ pc = "vf_loop"
    /\ LET n == fread(f_pos, ChunkSize)
       IN  IF n <= 0
           THEN /\ pc' = "vf_ok"
                /\ UNCHANGED <<f_pos, addr, rc, m, io, jtag_state, dev, trace>>
           ELSE \E o \in Outcomes :
                      /\ CompareChunk(flash_continue_read(K, n, o), n)
                      /\ rc' = n
                      /\ f_pos' = f_pos + n
                      /\ addr' = addr + ChunkSize
                      /\ pc' = IF addr + ChunkSize < file_size
                               THEN "vf_loop" ELSE "vf_ok"
    /\ UNCHANGED <<opt, exit_code, file_size, connected_device>>
    /\ UnchangedWait

\* qprintf("  VERIFY OK\n")
VerifyOk ==
    /\ pc = "vf_ok"
    /\ trace' = Append(trace, Mark("VERIFY_OK", 0, 0))
    /\ pc' = "finish"
    /\ UNCHANGED <<opt, exit_code, file_size, f_pos, addr, rc, connected_device,
                   jtag_state, m, io, dev>>
    /\ UnchangedWait

\* the burst of n bytes ends in context r
Burst(r, n) ==
    /\ SetCtx(r)
    /\ trace' = Append(trace,
            [JEntry("BITS", 0, n, r)
                EXCEPT !.tms = TmsPath(jtag_state, STATE_CAPTURE_DR)])

\* a chunk whose shift leaves the shift on its last bit
sram_chunk_end(k, n, o) ==
    AfterTap(k, jtag_tap_shift(jtag_go_to_state(Tap(k), STATE_CAPTURE_DR, o),
                               <<>>, n * 8, TRUE, o), o)

\* jtag_go_to_state(STATE_CAPTURE_DR); jtag_tap_shift(buffer, buffer, rc*8,
\* false)
sram_chunk(k, n, o) ==
    AfterTap(k, jtag_tap_shift(jtag_go_to_state(Tap(k), STATE_CAPTURE_DR, o),
                               <<>>, n * 8, FALSE, o), o)

\* one iteration of the bitstream loop of SRAM programming
SramBurst ==
    /\ pc = "s_chunk"
    /\ LET n == fread(f_pos, SramChunk)
       IN  IF n <= 0
           THEN /\ pc' = "s_disable"
                /\ UNCHANGED <<f_pos, rc, m, io, jtag_state, dev, trace>>
           ELSE \E o \in Outcomes :
                      /\ Burst(sram_chunk(K, n, o), n)
                      /\ rc' = n
                      /\ f_pos' = f_pos + n
                      /\ pc' = "s_chunk"
    /\ UNCHANGED <<opt, exit_code, file_size, addr, connected_device>>
    /\ UnchangedWait

\* fclose and jtag_deinit in context r
Deinit(r) ==
    /\ m' = jtag_deinit(r.m)
    /\ io' = r.io
    /\ jtag_state' = r.st
    /\ dev' = r.dev
    /\ trace' = trace
            \o (IF reinitialize THEN <<JEntry("IR", LSC_REFRESH, 0, r)>> ELSE <<>>)
            \o <<Mark("CLOSE", 0, 0)>>

\* the post-mode step: LSC_REFRESH if reinitialize, fclose, jtag_deinit,
\* return 0
Finish ==
    /\ pc = "finish"
    /\ \E o \in (IF reinitialize THEN Outcomes ELSE {"ok"}) :
         Deinit(IF reinitialize THEN ecp_jtag_cmd(K, LSC_REFRESH, o) ELSE K)
    /\ exit_code' = 0
    /\ pc' = "done"
    /\ UNCHANGED <<opt, file_size, f_pos, addr, rc, connected_device>>
    /\ UnchangedWait

Next ==
    \/ ParseArgs
    \/ JtagInit
    \/ ReadIdcode
    \/ ReadStatusRegister
    \/ EcpJtagCmd8
    \/ EcpJtagCmd
    \/ EnterSpiBackgroundMode
    \/ FlashReset
    \/ FlashReadId
    \/ FlashReadStatus
    \/ FlashWriteEnable
    \/ DisableProtectionWrite
    \/ DisableProtectionReadback
    \/ FlashBulkErase
    \/ BlockLoop
    \/ FlashSectorErase
    \/ ProgRead
    \/ FlashProg
    \/ FlashWaitPoll
    \/ FlashStartRead
    \/ ReadChunk
    \/ VerifyChunk
    \/ VerifyOk
    \/ SramBurst
    \/ Finish

Spec == Init /\ [][Next]_vars

-----------------------------------------------------------------------------
(* Flash programming under every combination of its options *)

\* -o 16M with 100 added: strtol and the M suffix give 16 * 1024 * 1024, an
\* offset that the option loop accepts as it does any other
BeyondOffset == 16 * 1024 * 1024 + 100

\* every combination of -p, -b, -n, -e and -v, with each erase block size,
\* at an aligned and an unaligned offset and at one just below a 4 KiB
\* boundary, for a file of one or two pages, and for an erase of 9000 bytes
\* (three blocks of 4 KiB); a program run and an erase run at an offset
\* beyond 16 MiB
FlashConfigs ==
    { c \in [ flags    : SUBSET {"p", "b", "n", "e", "v"},
              o        : {0, 100, 4000, BeyondOffset},
              n        : {10, 400, 9000},
              i        : BlockSizes,
              has_file : {TRUE},
              id       : {TYPE_ECP5},
              diffAt   : {-1} ] :
        /\ c.n > 400 => "e" \in c.flags
        /\ c.o = BeyondOffset => c.flags \subseteq {"e"} /\ c.i = 64 /\ c.n = 10 }

InitFlash == InitWith(FlashConfigs)

\* the steps of ecpprog_main outside read, SRAM and test mode
NextFlash ==
    \/ ParseArgs
    \/ JtagInit
    \/ ReadIdcode
    \/ ReadStatusRegister
    \/ EcpJtagCmd8
    \/ EnterSpiBackgroundMode
    \/ FlashReset
    \/ FlashReadId
    \/ FlashWriteEnable
    \/ DisableProtectionWrite
    \/ DisableProtectionReadback
    \/ FlashBulkErase
    \/ BlockLoop
    \/ FlashSectorErase
    \/ ProgRead
    \/ FlashProg
    \/ FlashWaitPoll
    \/ FlashStartRead
    \/ VerifyChunk
    \/ VerifyOk
    \/ Finish

SpecFlash == InitFlash /\ [][NextFlash]_vars

-----------------------------------------------------------------------------
(* bit_reverse, xfer_spi and send_spi applied to every byte value *)

Bytes == 0..255

\* addr holds the byte; rc what bit_reverse has made of it
InitRev ==
    /\ opt = [flags |-> {}, o |-> 0, n |-> 10, i |-> 64, has_file |-> TRUE,
              id |-> TYPE_ECP5, diffAt |-> -1]
    /\ pc = "rev"
    /\ addr \in Bytes
    /\ rc = addr
    /\ exit_code = -1
    /\ file_size = -1
    /\ f_pos = 0
    /\ connected_device = TYPE_NONE
    /\ jtag_state = STATE_TEST_LOGIC_RESET
    /\ m = MpsseInit
    /\ io = NoIo
    /\ dev = DevIdle
    /\ count = 0
    /\ polls = <<>>
    /\ busyLeft = 0
    /\ waitRet = "none"
    /\ trace = <<>>

\* rc = bit_reverse(rc), twice
BitReverse ==
    /\ pc \in {"rev", "rev_once"}
    /\ rc' = bit_reverse(rc)
    /\ pc' = IF pc = "rev" THEN "rev_once" ELSE "rev_twice"
    /\ UNCHANGED <<opt, exit_code, file_size, f_pos, addr, connected_device,
                   jtag_state, m, io, dev, trace>>
    /\ UnchangedWait

\* the transfer r of a five-byte buffer has been made
RevDone(r) ==
    /\ SetCtx(Ctx(r))
    /\ trace' = Append(trace, Entry("RD", addr, 1, jtag_state, r))

\* a five-byte buffer {FC_RD, 0, 0, addr, 0} passed through send_spi: the
\* flash answers its byte at address addr in the fifth
SendSpi ==
    /\ pc = "rev_twice"
    /\ RevDone(send_spi(K, AddrCmd(FC_RD, addr), 1, "ok"))
    /\ pc' = "rev_sent"
    /\ UNCHANGED <<opt, exit_code, file_size, f_pos, addr, rc, connected_device>>
    /\ UnchangedWait

\* the same buffer passed through xfer_spi
XferSpi ==
    /\ pc = "rev_twice"
    /\ RevDone(xfer_spi(K, AddrCmd(FC_RD, addr), 1, "ok"))
    /\ pc' = "rev_xfer"
    /\ UNCHANGED <<opt, exit_code, file_size, f_pos, addr, rc, connected_device>>
    /\ UnchangedWait

NextRev ==
    \/ BitReverse
    \/ SendSpi
    \/ XferSpi

SpecRev == InitRev /\ [][NextRev]_vars

-----------------------------------------------------------------------------
(* jtag_go_to_state applied to every pair of TAP states *)

\* the driver is in any TAP state; addr and rc are not used
InitTap ==
    /\ opt = [flags |-> {}, o |-> 0, n |-> 10, i |-> 64, has_file |-> TRUE,
              id |-> TYPE_ECP5, diffAt |-> -1]
    /\ pc = "tap"
    /\ jtag_state \in TapStates
    /\ addr = 0
    /\ rc = 0
    /\ exit_code = -1
    /\ file_size = -1
    /\ f_pos = 0
    /\ connected_device = TYPE_NONE
    /\ m = [MpsseInit EXCEPT !.mpsse_ftdic_open = TRUE, !.handle = TRUE]
    /\ io = NoIo
    /\ dev = DevIdle
    /\ count = 0
    /\ polls = <<>>
    /\ busyLeft = 0
    /\ waitRet = "none"
    /\ trace = <<>>

\* the call for `state` ended in driver context t: it is logged with the
\* target, the TMS bits emitted and the state the driver recorded
GoneTo(t, state) ==
    /\ SetCtx(AfterTap(K, t, "ok"))
    /\ trace' = Append(trace,
           [op |-> "GOTO", a |-> state, n |-> 0, data |-> <<>>,
            st0 |-> jtag_state, tms |-> TmsPath(jtag_state, state),
            st1 |-> t.st, buf |-> NoBuf])

\* jtag_go_to_state(state) for any target state
GoToState ==
    /\ pc = "tap"
    /\ \E state \in TapStates :
         GoneTo(jtag_go_to_state(Tap(K), state, "ok"), state)
    /\ pc' = "tap_done"
    /\ UNCHANGED <<opt, exit_code, file_size, f_pos, addr, rc, connected_device>>
    /\ UnchangedWait

NextTap == GoToState

SpecTap == InitTap /\ [][NextTap]_vars

-----------------------------------------------------------------------------
(* mpsse_xfer call by call: one ftdi_write_data, then ftdi_read_data until *)
(* the receive length is reached                                           *)

\* largest send_length and receive_length of the calls examined
MaxSend == 3
MaxRecv == 4

\* (uint16_t)x
U16(x) == x % 65536

\* addr holds send_length, file_size receive_length, count rx_len and rc the
\* last return value of libftdi; trace is the list of libftdi calls
InitXfer ==
    /\ opt = [flags |-> {}, o |-> 0, n |-> 10, i |-> 64, has_file |-> TRUE,
              id |-> TYPE_ECP5, diffAt |-> -1]
    /\ pc = "xfer"
    /\ addr \in 0..MaxSend
    /\ file_size \in 0..MaxRecv
    /\ count = 0
    /\ rc = 0
    /\ exit_code = -1
    /\ f_pos = 0
    /\ connected_device = TYPE_NONE
    /\ jtag_state = STATE_TEST_LOGIC_RESET
    /\ \E e \in {0, 2} :
         m = [MpsseInit EXCEPT !.mpsse_ftdic_open = (e = 0), !.handle = (e = 0),
                               !.mpsse_error_last = e]
    /\ io = NoIo
    /\ dev = DevIdle
    /\ polls = <<>>
    /\ busyLeft = 0
    /\ waitRet = "none"
    /\ trace = <<>>

\* a libftdi call on the buffer from offset a, for n bytes, that returned ret
UsbCall(op, a, n, ret) == [op |-> op, a |-> a, n |-> n, ret |-> ret]

\* a request for the whole receive length, whatever has arrived
ReadRequest_whole(receive_length, rx_len) == receive_length

\* the size argument of ftdi_read_data
ReadRequest(receive_length, rx_len) == receive_length - rx_len

\* where mpsse_xfer goes after its write: into the read loop, or back
AfterWrite == IF file_size # 0 THEN "x_read" ELSE "x_ret"

\* the entry test of mpsse_xfer and its ftdi_write_data, which returns ret
XferWrite ==
    /\ pc = "xfer"
    /\ IF m.mpsse_error_last # 0
       THEN /\ pc' = "x_ret"
            /\ UNCHANGED <<m, rc, trace>>
       ELSE IF addr # 0
       THEN \E ret \in {-1} \cup 0..addr :
              /\ rc' = ret
              /\ trace' = Append(trace, UsbCall("write", 0, addr, ret))
              /\ m' = IF ret # addr THEN mpsse_error(m, 2) ELSE m
              /\ pc' = IF ret # addr THEN "x_ret" ELSE AfterWrite
       ELSE /\ pc' = AfterWrite
            /\ UNCHANGED <<m, rc, trace>>
    /\ count' = 0
    /\ UNCHANGED <<opt, exit_code, file_size, f_pos, addr, connected_device,
                   jtag_state, io, dev, polls, busyLeft, waitRet>>

\* ftdi_read_data has returned ret: the error return, or rx_len += rc and
\* the loop test
ReadReturned(ret) ==
    /\ rc' = ret
    /\ IF ret < 0
       THEN /\ m' = mpsse_error(m, 2)
            /\ count' = count
            /\ pc' = "x_ret"
       ELSE /\ m' = m
            /\ count' = U16(count + ret)
            /\ pc' = IF U16(count + ret) # file_size THEN "x_read" ELSE "x_ret"
    /\ trace' = IF ret = 0 THEN trace
                ELSE Append(trace,
                         UsbCall("read", count, ReadRequest(file_size, count), ret))
    /\ UNCHANGED <<opt, exit_code, file_size, f_pos, addr, connected_device,
                   jtag_state, io, dev, polls, busyLeft, waitRet>>

\* ftdi_read_data returns some of the bytes asked for, or all of them
XferReadData ==
    /\ pc = "x_read"
    /\ \E ret \in 1..ReadRequest(file_size, count) : ReadReturned(ret)

\* ftdi_read_data returns 0: nothing was ready
XferReadEmpty ==
    /\ pc = "x_read"
    /\ ReadReturned(0)

\* ftdi_read_data returns an error
XferReadError ==
    /\ pc = "x_read"
    /\ ReadReturned(-1)

NextXfer ==
    \/ XferWrite
    \/ XferReadData
    \/ XferReadEmpty
    \/ XferReadError

\* the program runs on, and the device keeps delivering data: a read that
\* returns data is not put off for ever
SpecXfer ==
    InitXfer /\ [][NextXfer]_vars /\ WF_vars(XferWrite) /\ WF_vars(XferReadData)

-----------------------------------------------------------------------------
(* read_idcode and flash_reset shift by shift *)

\* values of the bytes that the DR scan of read_idcode captures
IdBytes == {0, 1, 67, 127, 128, 129, 255}

\* the TAP is where ecpprog_main calls read_idcode (Test-Logic-Reset, after
\* jtag_init) or flash_reset (Run-Test/Idle, after
\* enter_spi_background_mode)
InitScan ==
    /\ opt = [flags |-> {}, o |-> 0, n |-> 10, i |-> 64, has_file |-> TRUE,
              id |-> TYPE_ECP5, diffAt |-> -1]
    /\ pc = "scan"
    /\ jtag_state \in {STATE_TEST_LOGIC_RESET, STATE_RUN_TEST_IDLE}
    /\ addr = 0
    /\ rc = 0
    /\ exit_code = -1
    /\ file_size = -1
    /\ f_pos = 0
    /\ connected_device = TYPE_NONE
    /\ m = [MpsseInit EXCEPT !.mpsse_ftdic_open = TRUE, !.handle = TRUE]
    /\ io = NoIo
    /\ dev = DevIdle
    /\ count = 0
    /\ polls = <<>>
    /\ busyLeft = 0
    /\ waitRet = "none"
    /\ trace = <<>>

\* the operation that ended in context r is logged with its shifts, the
\* bytes its last scan captured and the word made of them
Scanned(r, op, data) ==
    /\ SetCtx(r)
    /\ trace' = Append(trace, [op |-> op, sh |-> r.sh, data |-> data,
                               idcode |-> FormatIdcode(data)])

\* read_idcode: the scans, the capture of four bytes and print_idcode(idcode)
ReadIdcodeWord ==
    /\ pc = "scan"
    /\ jtag_state = STATE_TEST_LOGIC_RESET
    /\ \E o \in Outcomes : \E b0, b1, b2, b3 \in IdBytes :
         Scanned(read_idcode(K, o), "IDCODE",
                 IF Answered(K, o) THEN <<b0, b1, b2, b3>> ELSE <<0, 0, 0, 0>>)
    /\ pc' = "id_done"
    /\ UNCHANGED <<opt, exit_code, file_size, f_pos, addr, rc, connected_device>>
    /\ UnchangedWait

\* flash_reset with any level of TDO
FlashResetScans ==
    /\ pc = "scan"
    /\ jtag_state = STATE_RUN_TEST_IDLE
    /\ \E o \in Outcomes : \E tdo \in TdoLevels :
         Scanned(flash_reset(K, tdo, o), "RESET", <<tdo, tdo, tdo, tdo>>)
    /\ pc' = "reset_done"
    /\ UNCHANGED <<opt, exit_code, file_size, f_pos, addr, rc, connected_device>>
    /\ UnchangedWait

NextScan ==
    \/ ReadIdcodeWord
    \/ FlashResetScans

SpecScan == InitScan /\ [][NextScan]_vars

-----------------------------------------------------------------------------
(* SRAM programming of bitstreams of up to three chunks *)

\* ecpprog -S <file>, with or without -v, for an empty file, a short one, one
\* of exactly one chunk, and files of two and of three chunks
SramConfigs ==
    [ flags    : {{"S"}, {"S", "v"}},
      o        : {0},
      n        : {0, 10, SramChunk, 20000, 40000},
      i        : {64},
      has_file : {TRUE},
      id       : {TYPE_ECP5, TYPE_NX},
      diffAt   : {-1} ]

InitSram == InitWith(SramConfigs)

\* the steps of ecpprog_main in SRAM program mode
NextSram ==
    \/ ParseArgs
    \/ JtagInit
    \/ ReadIdcode
    \/ ReadStatusRegister
    \/ EcpJtagCmd8
    \/ EcpJtagCmd
    \/ SramBurst
    \/ Finish

SpecSram == InitSram /\ [][NextSram]_vars

-----------------------------------------------------------------------------
(* flash_wait against a flash that is busy for as long as it likes *)

\* the number of polls of a wait is counted up to here
MaxPolls == 6

\* flash_wait is entered after a command that left the TAP in Exit1-DR;
\* busyLeft holds the busy bit (bit 0 of Status Register 1) that the flash
\* reports now, addr the number of polls made so far
InitWait ==
    /\ opt = [flags |-> {}, o |-> 0, n |-> 10, i |-> 64, has_file |-> TRUE,
              id |-> TYPE_ECP5, diffAt |-> -1]
    /\ pc = "wait"
    /\ waitRet = "w_done"
    /\ count = 0
    /\ polls = <<>>
    /\ busyLeft \in {0, 1}
    /\ addr = 0
    /\ rc = 0
    /\ exit_code = -1
    /\ file_size = -1
    /\ f_pos = 0
    /\ connected_device = TYPE_ECP5
    /\ jtag_state = STATE_EXIT1_DR
    /\ m = [MpsseInit EXCEPT !.mpsse_ftdic_open = TRUE, !.handle = TRUE]
    /\ io = NoIo
    /\ dev = DevIdle
    /\ trace = <<>>

\* the loop state after a poll that read busy bit `busy`
Polled(busy, w) ==
    /\ count' = w.count
    /\ polls' = Last3(Append(polls, busy))
    /\ addr' = Min(addr + 1, MaxPolls)
    /\ pc' = IF w.done THEN waitRet ELSE "wait"
    /\ trace' = IF w.done THEN Append(trace, Mark("WAITED", busy, 0)) ELSE trace

\* one iteration of while (1): xfer_spi of {FC_RSR1, 0}, test of data[1] & 1
\* (the buffer reads as zeros if the transport gave no answer), usleep(1000)
WaitPoll ==
    /\ pc = "wait"
    /\ \E o \in Outcomes :
         /\ SetCtx(xfer_spi(K, <<FC_RSR1, 0>>, 0, o))
         /\ Polled(IF Answered(K, o) THEN busyLeft ELSE 0,
                   flash_wait_step(count, IF Answered(K, o) THEN busyLeft ELSE 0))
    /\ UNCHANGED <<opt, exit_code, file_size, f_pos, rc, connected_device,
                   busyLeft, waitRet>>

\* the flash becomes idle, or busy again, between two polls
FlashBusyChanges ==
    /\ pc = "wait"
    /\ busyLeft' = 1 - busyLeft
    /\ UNCHANGED <<opt, pc, exit_code, file_size, f_pos, addr, rc,
                   connected_device, jtag_state, m, io, dev, count, polls,
                   waitRet, trace>>

NextWait ==
    \/ WaitPoll
    \/ FlashBusyChanges

\* the program runs on: the loop makes its next poll
SpecWait == InitWait /\ [][NextWait]_vars /\ WF_vars(WaitPoll)

-----------------------------------------------------------------------------
(* Properties *)

\* the run got past the argument checks and is in flash program mode
ProgramMode ==
    /\ ExitAtParse = {}
    /\ ~read_mode /\ ~check_mode /\ ~erase_mode /\ ~prog_sram /\ ~test_mode

\* the entries of the trace whose op is in S, in order
Only(S) == SelectSeq(trace, LAMBDA e : e.op \in S)

EraseOps == {"SE", "BE32", "BE64", "CE"}

\* sum of the n fields of the first k entries of q
RECURSIVE SumN(_, _)
SumN(q, k) == IF k = 0 THEN 0 ELSE q[k].n + SumN(q, k - 1)

\* C1: in the verify pass, on the first chunk whose bytes read from flash
\* differ from the file bytes, the run ends with exit code 3 and no further
\* chunk is read from flash or compared.  (Stated for a mismatch found
\* while the transport works.)
C1_MismatchEndsRunWith3 ==
    \A i \in DOMAIN trace :
        (trace[i].op = "ERR" /\ trace[i].n = 0) =>
            /\ \A j \in DOMAIN trace :
                  j > i => trace[j].op \notin {"CONT", "CMP"}
            /\ pc = "done" => exit_code = 3

\* C2: if a transport call fails during a run, including the failure to
\* open the device during init, the run ends with exit code 2.
C2_TransportFailureExitsWith2 ==
    (pc = "done" /\ m.mpsse_error_last = 2) => exit_code = 2

\* C3: the page programs (a_i, n_i) of a program pass are consecutive from
\* the offset, non-empty, cover [offset, offset + length) exactly once, and
\* none crosses a 256-byte boundary.
C3_PageSplit ==
    (pc = "done" /\ ProgramMode) =>
        LET q == Only({"PP"})
        IN  /\ \A i \in DOMAIN q :
                  /\ q[i].n > 0
                  /\ q[i].a = rw_offset + SumN(q, i - 1)
                  /\ q[i].a \div PageSize = (q[i].a + q[i].n - 1) \div PageSize
            /\ SumN(q, Len(q)) = FileLen

\* 400 bytes at offset 100 were programmed as PP(100, 156), PP(256, 244)
C3_Witness ==
    /\ pc = "done" /\ ProgramMode
    /\ rw_offset = 100 /\ FileLen = 400
    /\ [i \in 1..Len(Only({"PP"})) |-> <<Only({"PP"})[i].a, Only({"PP"})[i].n>>]
         = << <<100, 156>>, <<256, 244>> >>

\* the run erases by blocks
BlockErasing ==
    /\ ExitAtParse = {} /\ file_size >= 0
    /\ ~read_mode /\ ~check_mode /\ ~prog_sram /\ ~test_mode
    /\ ~dont_erase /\ ~bulk_erase

\* C4: the erase range [begin, end) contains [offset, offset + length), its
\* endpoints are multiples of the block size and no aligned range that
\* contains [offset, offset + length) is smaller; the block erases of the
\* run are those of the blocks of the range, in ascending order.
C4_EraseRange ==
    (BlockErasing /\ pc \in {"blk_first", "done"}) =>
        /\ begin_addr <= rw_offset
        /\ end_addr >= rw_offset + file_size
        /\ begin_addr % block_size = 0
        /\ end_addr % block_size = 0
        /\ \A k \in 0..((rw_offset + file_size) \div block_size + 1) :
              /\ k * block_size <= rw_offset => k * block_size <= begin_addr
              /\ k * block_size >= rw_offset + file_size
                    => k * block_size >= end_addr
        /\ pc = "done" =>
              LET q == Only({"SE", "BE32", "BE64"})
              IN  /\ Len(q) * block_size = end_addr - begin_addr
                  /\ \A i \in DOMAIN q : q[i].a = begin_addr + (i - 1) * block_size

\* 10 bytes at offset 70000 with 64 KiB blocks: one erase, at 65536
C4_Witness ==
    /\ pc = "done" /\ BlockErasing
    /\ rw_offset = 70000 /\ file_size = 10 /\ erase_block_size = 64
    /\ begin_addr = 65536 /\ end_addr = 131072
    /\ Len(Only({"SE", "BE32", "BE64"})) = 1
    /\ Only({"SE", "BE32", "BE64"})[1].op = "BE64"
    /\ Only({"SE", "BE32", "BE64"})[1].a = 65536

\* number of idle polls at the end of q
RECURSIVE TrailingIdle(_)
TrailingIdle(q) ==
    IF q = <<>> \/ Last(q) # 0 THEN 0
    ELSE 1 + TrailingIdle(SubSeq(q, 1, Len(q) - 1))

\* C5: flash_wait has returned only if its last three polls all read busy =
\* 0; while it runs, count is the number of idle polls since the last busy
\* one, so a busy poll restarts the count.
C5_ThreeIdlePolls ==
    /\ (pc # "wait" /\ waitRet # "none") => polls = <<0, 0, 0>>
    /\ pc = "wait" => count = TrailingIdle(polls) /\ count <= 2

\* a wait that read idle, busy, idle: the busy poll restarted the count
C5_Witness ==
    /\ pc = "wait"
    /\ polls = <<0, 1, 0>>
    /\ count = 1

\* C6 as stated: each Write-Enable is followed, before the next
\* Write-Enable, by exactly one page program or erase command.
C6_WriteEnableThenProgramOrErase ==
    pc = "done" =>
        LET q == Only({"WE", "PP"} \cup EraseOps)
        IN  \A i \in DOMAIN q :
                q[i].op = "WE" =>
                    /\ i < Len(q) /\ q[i + 1].op # "WE"
                    /\ i + 2 <= Len(q) => q[i + 2].op = "WE"

\* C6: each Write-Enable issued is followed, before the next Write-Enable,
\* by exactly one page program, erase or Write-Status-Register-1 command.
C6_WriteEnableThenOneWrite ==
    pc = "done" =>
        LET q == Only({"WE", "PP", "WSR1"} \cup EraseOps)
        IN  \A i \in DOMAIN q :
                q[i].op = "WE" =>
                    /\ i < Len(q) /\ q[i + 1].op # "WE"
                    /\ i + 2 <= Len(q) => q[i + 2].op = "WE"

\* -p -b: protection disable, chip erase and one page, each after its own
\* Write-Enable
C6_Witness ==
    /\ pc = "done"
    /\ disable_protect /\ bulk_erase
    /\ [i \in 1..Len(Only({"WE", "PP", "WSR1"} \cup EraseOps)) |->
            Only({"WE", "PP", "WSR1"} \cup EraseOps)[i].op]
         = <<"WE", "WSR1", "WE", "CE", "WE", "PP">>

\* the trace without the status register reads
NoStatusReads == SelectSeq(trace, LAMBDA e : e.op \notin {"RSR1", "RSR2"})

\* C7: after every erase command and every page program, the next flash
\* command other than a status register read comes only after flash_wait
\* has returned, its last poll having read busy = 0.
C7_WaitAfterEraseAndProgram ==
    pc = "done" =>
        LET q == NoStatusReads
        IN  \A i \in DOMAIN q :
                q[i].op \in EraseOps \cup {"DATA"} =>
                    /\ i < Len(q)
                    /\ q[i + 1].op = "WAITED"
                    /\ q[i + 1].a = 0

\* a verbose run: status reads between a block erase and the end of its
\* wait, and a page program followed by its wait
C7_Witness ==
    /\ pc = "done"
    /\ \E i \in DOMAIN trace :
          /\ trace[i].op \in EraseOps
          /\ i + 3 <= Len(trace)
          /\ trace[i + 1].op = "RSR1" /\ trace[i + 2].op = "RSR2"
          /\ trace[i + 3].op = "WAITED"
    /\ \E i \in DOMAIN trace :
          /\ trace[i].op = "DATA"
          /\ i < Len(trace) /\ trace[i + 1].op = "WAITED"

\* C8: from flash_start_read to the last flash_continue_read of a pass the
\* TAP stays in Shift-DR: flash_start_read ends there, every
\* flash_continue_read starts and ends there and emits no TMS transition,
\* and nothing but the handling of the previous chunk lies between them.
C8_ReadStaysInShiftDR ==
    /\ pc \in {"rd_loop", "vf_loop"} => jtag_state = STATE_SHIFT_DR
    /\ pc = "done" =>
          \A i \in DOMAIN trace :
              /\ trace[i].op = "RD" => trace[i].st1 = STATE_SHIFT_DR
              /\ trace[i].op = "CONT" =>
                    /\ trace[i].st0 = STATE_SHIFT_DR
                    /\ trace[i].tms = <<>>
                    /\ trace[i].st1 = STATE_SHIFT_DR
                    /\ i > 1
                    /\ trace[i - 1].op \in {"RD", "WRITE", "CMP", "ERR"}

\* a pass of at least two chunks has ended on a working transport
C8_Witness ==
    /\ pc = "done"
    /\ m.mpsse_error_last = 0
    /\ Len(Only({"CONT"})) >= 2
    /\ jtag_state = STATE_SHIFT_DR

\* C9: after flash_start_read(off) the read command and its address are
\* sent once; every flash_continue_read sends no command or address byte,
\* and the bytes it returns continue the flash content where the previous
\* call ended, starting at off.  (The content is stated for the calls the
\* transport answers.)
C9_ContinuedReadIsContiguous ==
    pc = "done" =>
        LET q == Only({"RD", "CONT"})
        IN  \A i \in DOMAIN q :
                /\ q[i].op = "RD" =>
                      i = 1 /\ q[i].data = AddrCmd(FC_RD, rw_offset)
                /\ q[i].op = "CONT" =>
                      /\ i > 1
                      /\ q[i].data = <<>>
                      /\ q[i].buf.kind # "zeros" =>
                            \A j \in {0, q[i].n - 1} :
                                BufByte(q[i].buf, j)
                                  = FlashByte(rw_offset + SumN(q, i - 1) + j)

\* two chunks were read at a non-zero offset, the second from off + 4096
C9_Witness ==
    /\ pc = "done"
    /\ rw_offset # 0
    /\ Len(Only({"CONT"})) >= 2
    /\ Only({"CONT"})[2].buf.kind = "flash"
    /\ Only({"CONT"})[2].buf.from = rw_offset + ChunkSize
    /\ BufByte(Only({"CONT"})[2].buf, 0) = FlashByte(rw_offset + ChunkSize)

\* C10: once the last error is set it stays non-zero, and an mpsse_xfer
\* entered with the last error set makes no USB write and no USB read.
C10_StickyErrorStopsXfer ==
    /\ []((io.fn = "xfer" /\ io.err0 # 0) => (~io.wr /\ ~io.rd))
    /\ [][m.mpsse_error_last # 0 => m'.mpsse_error_last # 0]_vars

\* an mpsse_xfer was called after a transport failure
C10_Witness ==
    /\ io.fn = "xfer"
    /\ io.err0 = 2
    /\ m.mpsse_error_last # 0
    /\ ~io.wr /\ ~io.rd

\* C11: a transport call entered after a transport failure (mpsse_send_byte
\* as well as mpsse_xfer) makes no USB write and no USB read.
C11_NoIoAfterFailure ==
    io.err0 # 0 => (~io.wr /\ ~io.rd)

\* the run has called jtag_init
ReachedInit == \E i \in DOMAIN trace : trace[i].op = "INIT"

\* C12: when a run that called jtag_init has ended, the latency timer of the
\* device has the value it had before the run (the value mpsse_init saved,
\* where it saved one), no USB handle is open and ftdi_deinit has been
\* called.
C12_DeviceReleasedAtExit ==
    (pc = "done" /\ ReachedInit) =>
        /\ m.latency = InitialLatency
        /\ m.mpsse_ftdic_latency_set => m.mpsse_ftdi_latency = m.latency
        /\ ~m.handle
        /\ m.deinits >= 1

\* a run without failure: the timer was set to 1 and back, and the handle
\* opened and closed once
C12_Witness ==
    /\ pc = "done" /\ ReachedInit
    /\ m.mpsse_error_last = 0
    /\ m.latencyWrites = {1, InitialLatency}
    /\ m.latency = InitialLatency
    /\ m.usbOpens = 1 /\ m.usbCloses = 1 /\ m.deinits = 1
    /\ ~m.handle

\* C13: mpsse_init returns 0 if and only if none of its steps failed (the
\* INIT entry of the trace holds its return value and the step that failed,
\* 0 for none).
C13_InitFailsIffStepFails ==
    \A i \in DOMAIN trace :
        trace[i].op = "INIT" => (trace[i].a = 0 <=> trace[i].n = 0)

\* C14: a run with -a and an otherwise valid mode (only letters of the
\* option string, no --help) ends with LSC_REFRESH as its last command before
\* the transport is closed; a run without -a never issues LSC_REFRESH.
C14_RefreshIffRequested ==
    pc = "done" =>
        /\ ("a" \in opt.flags /\ ~ModeError /\ opt.flags \ {"a"} \subseteq OptString) =>
              /\ Len(trace) >= 2
              /\ trace[Len(trace)].op = "CLOSE"
              /\ trace[Len(trace) - 1].op = "IR"
              /\ trace[Len(trace) - 1].a = LSC_REFRESH
        /\ "a" \notin opt.flags =>
              \A i \in DOMAIN trace :
                  ~(trace[i].op = "IR" /\ trace[i].a = LSC_REFRESH)

\* how many of the modes {-r/-R, -e, -c, -S, -t} the command line gives
ModesGiven ==
      B2N(opt.flags \cap {"r", "R"} # {}) + B2N("e" \in opt.flags)
    + B2N("c" \in opt.flags) + B2N("S" \in opt.flags) + B2N("t" \in opt.flags)

StatusReads ==
    SelectSeq(trace, LAMBDA e : e.op = "IR" /\ e.a = LSC_READ_STATUS)

\* C16: every read_status_register after read_idcode shifts 32 DR bits if
\* the IDCODE was found in the ECP5 table and 64 DR bits if it was found in
\* the NX table.
C16_StatusWidthByDevice ==
    pc = "done" =>
        \A i \in DOMAIN StatusReads :
            /\ connected_device = TYPE_ECP5 => StatusReads[i].n = 32
            /\ connected_device = TYPE_NX => StatusReads[i].n = 64

\* an SRAM programming run on an NX device: three status reads of 64 bits
C16_Witness ==
    /\ pc = "done"
    /\ m.mpsse_error_last = 0
    /\ connected_device = TYPE_NX
    /\ Len(StatusReads) = 3
    /\ \A i \in DOMAIN StatusReads : StatusReads[i].n = 64

\* C17: a run whose IDCODE, read over a working transport, is in neither
\* device table issues no command after read_idcode and ends with exit
\* code 2.
C17_UnknownDeviceStops ==
    (pc = "done" /\ ReachedInit /\ m.mpsse_error_last = 0
        /\ connected_device = TYPE_NONE) =>
        /\ exit_code = 2
        /\ \A i \in DOMAIN trace :
              \/ trace[i].op \in {"INIT", "CLOSE"}
              \/ trace[i].op = "IR" /\ trace[i].a = READ_ID

\* C18: bit_reverse maps bit i of every byte to bit 7 - i, so applying it
\* twice gives the byte back; of a buffer passed through send_spi or
\* xfer_spi the flash samples the bytes given (it decodes the read opcode
\* and the address byte), and the byte the flash answers comes back
\* unchanged in the buffer.
C18_BitReversal ==
    /\ pc = "rev_once" => \A i \in 0..7 : Bit(rc, 7 - i) = Bit(addr, i)
    /\ pc = "rev_twice" => rc = addr
    /\ pc \in {"rev_sent", "rev_xfer"} =>
          /\ dev.ptr = addr + 1
          /\ Last(trace).data = <<FC_RD, 0, 0, addr>>
          /\ Last(trace).buf.kind = "flash"
          /\ Last(trace).buf.from = addr
          /\ BufByte(Last(trace).buf, 4) = FlashByte(addr)
          /\ pc = "rev_sent" => dev.cs /\ dev.rd

\* the byte 0x01 reversed to 0x80 and back, then sent as an address through
\* xfer_spi: the flash answered its byte at address 1
C18_Witness ==
    /\ pc = "rev_xfer"
    /\ addr = 1 /\ rc = 1 /\ bit_reverse(addr) = 128
    /\ dev.ptr = 2
    /\ BufByte(Last(trace).buf, 4) = FlashByte(1)

\* the bitstream chunks of the trace
Chunks == Only({"BITS"})

\* C19: in SRAM program mode every chunk of the bitstream has at most 16 KiB;
\* every chunk but the last is shifted without leaving the shift (the TAP
\* state is what it was before the shift), and the last chunk leaves it on
\* its final bit, for Exit1-DR.
C19_LastChunkLeavesShift ==
    (pc = "done" /\ prog_sram) =>
        \A i \in DOMAIN Chunks :
            /\ Chunks[i].n <= SramChunk
            /\ i < Len(Chunks) => Chunks[i].st1 = STATE_CAPTURE_DR
            /\ i = Len(Chunks) => Chunks[i].st1 = STATE_EXIT1_DR

\* the transfers made by send_spi; the other SPI transfers are xfer_spi's
SendOps == {"PP", "RD", "CONT"}
XferOps == {"WE", "JEDECID", "RSR1", "RSR2", "WSR1", "SE", "BE32", "BE64",
            "CE", "DATA"}

\* C20: an xfer_spi emits TMS transitions only if the TAP is not in Shift-DR
\* (and then those that lead there), shifts len * 8 bits and ends in
\* Exit1-DR, the chip-select released; a send_spi shifts len * 8 bits and
\* ends in Shift-DR.
C20_SpiTransferEndStates ==
    /\ (m.mpsse_error_last = 0 /\ jtag_state # STATE_SHIFT_DR) => ~dev.cs
    /\ pc = "done" =>
          \A i \in DOMAIN trace :
              /\ trace[i].op \in XferOps =>
                    /\ trace[i].tms = TmsPath(trace[i].st0, STATE_SHIFT_DR)
                    /\ trace[i].st0 = STATE_SHIFT_DR <=> trace[i].tms = <<>>
                    /\ trace[i].bits = 8 * (Len(trace[i].data) + trace[i].n)
                    /\ trace[i].st1 = STATE_EXIT1_DR
              /\ trace[i].op \in SendOps =>
                    /\ trace[i].bits =
                          8 * (Len(trace[i].data)
                                 + IF trace[i].op = "CONT" THEN trace[i].n ELSE 0)
                    /\ trace[i].st1 = STATE_SHIFT_DR

\* a page program on a working transport: the command sent by send_spi ends
\* in Shift-DR, and the data sent by xfer_spi from there, without a TMS
\* transition, ends in Exit1-DR
C20_Witness ==
    /\ pc = "done"
    /\ m.mpsse_error_last = 0
    /\ ~dev.cs
    /\ \E i \in DOMAIN trace :
          /\ trace[i].op = "PP" /\ trace[i].st1 = STATE_SHIFT_DR
          /\ trace[i].bits = 32
          /\ trace[i + 1].op = "DATA" /\ trace[i + 1].tms = <<>>
          /\ trace[i + 1].bits = 80
          /\ trace[i + 1].st1 = STATE_EXIT1_DR
    /\ \E i \in DOMAIN trace :
          trace[i].op = "WE" /\ trace[i].tms # <<>>

\* the TAP state after the TMS bits p, from state s
RECURSIVE RunTms(_, _)
RunTms(s, p) == IF p = <<>> THEN s ELSE RunTms(TapNext(s, Head(p)), Tail(p))

\* the states the TAP can be in after exactly k TMS bits from s, no state
\* before the last being a Shift state (s aside)
RECURSIVE Front(_, _)
Front(s, k) ==
    IF k = 0 THEN {s}
    ELSE { TapNext(x, b) : x \in { y \in Front(s, k - 1) : k = 1 \/ ~IsShift(y) },
                           b \in {0, 1} }

\* C21: for every pair (current, target) of TAP states, the TMS bits that
\* jtag_go_to_state emits drive the TAP graph from current to target, pass
\* through no Shift state on the way, are as few as any such path has, and
\* the driver records target; from Run-Test/Idle to Shift-DR they are 1,0,0
\* and from Shift-DR to Shift-IR 1,1,1,1,0,0.
C21_ShortestTapPath ==
    pc = "tap_done" =>
        LET e == Last(trace)
        IN  /\ RunTms(e.st0, e.tms) = e.a
            /\ jtag_state = e.a /\ e.st1 = e.a
            /\ \A i \in 1..(Len(e.tms) - 1) :
                  ~IsShift(RunTms(e.st0, SubSeq(e.tms, 1, i)))
            /\ \A j \in 0..(Len(e.tms) - 1) : e.a \notin Front(e.st0, j)
            /\ e.tms # <<>> => io.fn = "xfer" /\ io.wr
            /\ (e.st0 = STATE_RUN_TEST_IDLE /\ e.a = STATE_SHIFT_DR) =>
                  e.tms = <<1, 0, 0>>
            /\ (e.st0 = STATE_SHIFT_DR /\ e.a = STATE_SHIFT_IR) =>
                  e.tms = <<1, 1, 1, 1, 0, 0>>

\* from Shift-DR to Shift-IR by Exit1-DR, Update-DR, Select-DR-Scan,
\* Select-IR-Scan and Capture-IR
C21_Witness ==
    /\ pc = "tap_done"
    /\ Last(trace).st0 = STATE_SHIFT_DR
    /\ Last(trace).tms = <<1, 1, 1, 1, 0, 0>>
    /\ jtag_state = STATE_SHIFT_IR

\* the commands that change the flash: Write-Enable, Write-Status-Register,
\* Page-Program with its data, the sector and block erases, the chip erase
WriteOps == {"WE", "WSR1", "PP", "DATA"} \cup EraseOps

\* C22: a run in check mode (-c) or in read mode (-r, -R) issues no command
\* that changes the flash.
C22_CheckAndReadDoNotWrite ==
    opt.flags \cap {"c", "r", "R"} # {} =>
        /\ trace # <<>> => Last(trace).op \notin WriteOps
        /\ pc = "done" => \A i \in DOMAIN trace : trace[i].op \notin WriteOps

\* a check run has compared the file with the flash and has not written
C22_Witness ==
    /\ pc = "done"
    /\ check_mode
    /\ m.mpsse_error_last = 0
    /\ Only({"CMP"}) # <<>>
    /\ Only({"VERIFY_OK"}) # <<>>
    /\ Only(WriteOps) = <<>>

\* sum of the return values of the first k calls of q that are reads
RECURSIVE Received(_, _)
Received(q, k) ==
    IF k = 0 THEN 0
    ELSE (IF q[k].op = "read" /\ q[k].ret > 0 THEN q[k].ret ELSE 0)
           + Received(q, k - 1)

\* the calls mpsse_xfer has made so far are those of the claim
XferCallsInOrder ==
    /\ pc = "x_read" => count < file_size
    /\ \A i \in DOMAIN trace :
          /\ trace[i].op = "write" =>
                i = 1 /\ trace[i].a = 0 /\ trace[i].n = addr
          /\ trace[i].op = "read" =>
                /\ i > 1 => trace[i - 1].ret >= 0
                /\ trace[1].op = "write" => trace[1].ret = addr
                /\ trace[i].a = Received(trace, i - 1)
                /\ trace[i].n = file_size - trace[i].a
                /\ trace[i].n >= 1
                /\ trace[i].a + trace[i].ret <= file_size
    /\ (pc = "x_ret" /\ m.mpsse_error_last = 0) =>
          /\ count = file_size
          /\ Received(trace, Len(trace)) = file_size
          /\ Len(SelectSeq(trace, LAMBDA e : e.op = "write")) = B2N(addr > 0)
          /\ file_size > 0 =>
                /\ Last(trace).op = "read"
                /\ Last(trace).a < file_size
                /\ Last(trace).a + Last(trace).ret = file_size

\* C23: without a libftdi error, mpsse_xfer writes its send_length bytes in
\* one ftdi_write_data call, made first; each ftdi_read_data after it asks
\* for the bytes still missing and stores at the offset reached, so never
\* more than receive_length bytes are asked for or stored; it returns with
\* the read that completes receive_length, and while the device keeps
\* delivering data it does return.
C23_XferWritesThenReadsExactly ==
    /\ []XferCallsInOrder
    /\ (pc \in {"xfer", "x_read"}) ~> (pc = "x_ret")

\* three bytes written in one call, four received in two reads of 1 and 3
C23_Witness ==
    /\ pc = "x_ret"
    /\ m.mpsse_error_last = 0
    /\ trace = <<UsbCall("write", 0, 3, 3), UsbCall("read", 0, 4, 1),
                 UsbCall("read", 1, 3, 3)>>
    /\ count = 4

\* the fwrite calls of the read loop
Writes == Only({"WRITE"})

\* C24: a read run of N > 0 bytes at offset off over a working transport
\* writes exactly N bytes to the output, and they are the flash content of
\* [off, off + N) in order: each fwrite takes its bytes from the head of a
\* buffer that holds the flash content from off plus the bytes written
\* before.
C24_ReadWritesExactlyN ==
    (pc = "done" /\ ExitAtParse = {} /\ read_mode /\ read_size > 0
        /\ m.mpsse_error_last = 0) =>
        /\ SumN(Writes, Len(Writes)) = read_size
        /\ \A i \in DOMAIN Writes :
              /\ Writes[i].n > 0
              /\ Writes[i].buf.kind = "flash"
              /\ Writes[i].buf.skip = 0
              /\ Writes[i].buf.from = rw_offset + SumN(Writes, i - 1)
              /\ \A j \in {0, Writes[i].n - 1} :
                    BufByte(Writes[i].buf, j)
                      = FlashByte(rw_offset + SumN(Writes, i - 1) + j)

\* -R 4097: 4096 bytes written from the first buffer, one from the second
C24_Witness ==
    /\ pc = "done" /\ read_mode /\ m.mpsse_error_last = 0
    /\ read_size = ChunkSize + 1
    /\ Len(Writes) = 2
    /\ Writes[1].n = ChunkSize /\ Writes[2].n = 1
    /\ Writes[2].buf.from = rw_offset + ChunkSize
    /\ BufByte(Writes[2].buf, 0) = FlashByte(rw_offset + ChunkSize)

\* the erase commands of the trace, and the commands and waits around them
Erases == Only(EraseOps)
WritesAndWaits == Only({"WE", "WSR1", "PP", "WAITED"} \cup EraseOps)

\* C25: with -n no erase command is issued; with -b exactly one chip erase
\* (0xC7) and no block erase; otherwise one erase per block of the range, in
\* ascending order of address, with the opcode of the block size (4 KiB:
\* 0x20, 32 KiB: 0x52, 64 KiB: 0xD8) followed by the three address bytes;
\* each erase command has exactly one Write-Enable before it and exactly one
\* wait after it.
C25_EraseStrategy ==
    (pc = "done" /\ ExitAtParse = {}) =>
        /\ dont_erase => Erases = <<>>
        /\ (~dont_erase /\ bulk_erase) =>
              /\ Len(Erases) = 1
              /\ Erases[1].op = "CE"
              /\ Erases[1].data = <<199>>
        /\ (~dont_erase /\ ~bulk_erase) =>
              /\ Len(Erases) * block_size = end_addr - begin_addr
              /\ \A i \in DOMAIN Erases :
                    /\ Erases[i].a = begin_addr + (i - 1) * block_size
                    /\ Erases[i].data =
                          AddrCmd(CASE erase_block_size = 4 -> 32
                                    [] erase_block_size = 32 -> 82
                                    [] erase_block_size = 64 -> 216,
                                  Erases[i].a)
        /\ \A i \in DOMAIN WritesAndWaits :
              WritesAndWaits[i].op \in EraseOps =>
                  /\ i > 1 /\ WritesAndWaits[i - 1].op = "WE"
                  /\ i > 2 => WritesAndWaits[i - 2].op # "WE"
                  /\ i < Len(WritesAndWaits)
                  /\ WritesAndWaits[i + 1].op = "WAITED"
                  /\ i + 2 <= Len(WritesAndWaits) =>
                        WritesAndWaits[i + 2].op # "WAITED"

\* -e 9000 -i 4: three sector erases, at 0, 4096 and 8192, each between its
\* Write-Enable and its wait
C25_Witness ==
    /\ pc = "done" /\ erase_mode /\ erase_block_size = 4
    /\ m.mpsse_error_last = 0
    /\ [i \in 1..Len(Erases) |-> <<Erases[i].op, Erases[i].a>>]
         = << <<"SE", 0>>, <<"SE", 4096>>, <<"SE", 8192>> >>
    /\ [i \in 1..Len(WritesAndWaits) |-> WritesAndWaits[i].op]
         = <<"WE", "SE", "WAITED", "WE", "SE", "WAITED", "WE", "SE", "WAITED">>

\* the bytes an erase command erases
ErasedBytes(op) ==
    CASE op = "SE" -> 4096
      [] op = "BE32" -> 32768
      [] op = "BE64" -> 65536
      [] OTHER -> 0

\* the place of a command in a program run: erase, program, verify read
Phase(op) == IF op \in EraseOps THEN 0 ELSE IF op = "PP" THEN 1 ELSE 2

\* the erase, page program and read commands of the trace
ProgramRun == Only(EraseOps \cup {"PP", "RD"})

\* C26: in flash program mode with neither -n nor -b, every erase command
\* comes before every page program, every page program before the read
\* command of the verify pass, and every byte a page program writes lies in
\* a block that an earlier erase command of the run erased.
C26_EraseProgramVerifyOrder ==
    (pc = "done" /\ ProgramMode /\ ~dont_erase /\ ~bulk_erase) =>
        /\ \A i \in 1..(Len(ProgramRun) - 1) :
              Phase(ProgramRun[i].op) <= Phase(ProgramRun[i + 1].op)
        /\ \A i \in DOMAIN ProgramRun :
              ProgramRun[i].op = "PP" =>
                  \A x \in {ProgramRun[i].a, ProgramRun[i].a + ProgramRun[i].n - 1} :
                      \E j \in 1..(i - 1) :
                          /\ ProgramRun[j].a <= x
                          /\ x < ProgramRun[j].a + ErasedBytes(ProgramRun[j].op)

\* 400 bytes at offset 4000 with 4 KiB blocks: two erases, then three pages,
\* then the read of the verify pass
C26_Witness ==
    /\ pc = "done" /\ ProgramMode /\ ~dont_erase /\ ~bulk_erase
    /\ m.mpsse_error_last = 0
    /\ [i \in 1..Len(ProgramRun) |-> <<ProgramRun[i].op, ProgramRun[i].a>>]
         = << <<"SE", 0>>, <<"SE", 4096>>, <<"PP", 4000>>, <<"PP", 4096>>,
              <<"PP", 4352>>, <<"RD", 4000>> >>

\* the JTAG instructions of an SRAM programming run up to its bitstream
SramHead ==
    <<READ_ID, LSC_READ_STATUS, ISC_ENABLE, ISC_ERASE, LSC_RESET_CRC,
      LSC_READ_STATUS, LSC_BITSTREAM_BURST>>

\* and those after it
SramTail == <<ISC_DISABLE, LSC_READ_STATUS>>

\* the commands of the run
Issued == SelectSeq(trace, LAMBDA e : e.op \notin {"INIT", "CLOSE"})

\* C27: an SRAM programming run issues, after read_idcode and the status
\* read that every run starts with, ISC_ENABLE, ISC_ERASE, LSC_RESET_CRC, a
\* status read and LSC_BITSTREAM_BURST, then the chunks of the bitstream
\* (all bytes of the file), then ISC_DISABLE and a status read, and nothing
\* else: no bitstream chunk before LSC_BITSTREAM_BURST or after ISC_DISABLE
\* and no SPI flash command.
C27_SramCommandOrder ==
    (pc = "done" /\ ExitAtParse = {} /\ prog_sram) =>
        /\ Len(Issued) = Len(SramHead) + Len(Chunks) + Len(SramTail)
        /\ \A i \in DOMAIN Issued :
              IF i <= Len(SramHead)
              THEN Issued[i].op = "IR" /\ Issued[i].a = SramHead[i]
              ELSE IF i <= Len(SramHead) + Len(Chunks)
              THEN Issued[i].op = "BITS"
              ELSE /\ Issued[i].op = "IR"
                   /\ Issued[i].a = SramTail[i - Len(SramHead) - Len(Chunks)]
        /\ SumN(Chunks, Len(Chunks)) = FileLen

\* a bitstream of 20000 bytes was sent in chunks of 16384 and 3616 bytes
C27_Witness ==
    /\ pc = "done" /\ prog_sram
    /\ m.mpsse_error_last = 0
    /\ FileLen = 20000
    /\ [i \in 1..Len(Chunks) |-> Chunks[i].n] = <<SramChunk, 3616>>
    /\ Len(Issued) = 11

\* C28: read_idcode shifts the 8 bits of READ_ID into IR and then 32 bits
\* out of DR, leaving each shift on its last bit, and the word it looks up
\* has byte 3 of the capture in bits 31..24, byte 2 in bits 23..16, byte 1 in
\* bits 15..8 and byte 0 in bits 7..0, for bytes of 0x80 and above as well.
C28_IdcodeWord ==
    pc = "id_done" =>
        LET e == Last(trace)
        IN  /\ e.sh = <<Shift(STATE_SHIFT_IR, <<224>>, 8, TRUE),
                        Shift(STATE_SHIFT_DR, <<0, 0, 0, 0>>, 32, TRUE)>>
            /\ e.idcode.hi = e.data[4] * 256 + e.data[3]
            /\ e.idcode.lo = e.data[2] * 256 + e.data[1]

\* the capture 43 80 81 FF gave the word 0xFF818043
C28_Witness ==
    /\ pc = "id_done"
    /\ Last(trace).data = <<67, 128, 129, 255>>
    /\ Last(trace).idcode = Word(65409, 32835)

\* position of the Write-Status-Register command in the trace, 0 if none
WsrAt ==
    IF \E i \in DOMAIN trace : trace[i].op = "WSR1"
    THEN CHOOSE i \in DOMAIN trace : trace[i].op = "WSR1"
    ELSE 0

\* C29: a run with -p writes 0x00 to Status Register 1 once, then waits until
\* the flash is idle, then reads Status Register 1 back; whether or not the
\* value read back is 0x00 (a warning is all that follows a value that is
\* not), the erase phase and the program phase run afterwards as the other
\* options select them (a chip erase, or the erase of the blocks of a range
\* that is not empty, and the programming of the bytes of the file).
C29_ProtectionDisableContinues ==
    (pc = "done" /\ ExitAtParse = {} /\ disable_protect) =>
        /\ Len(Only({"WSR1"})) = 1
        /\ trace[WsrAt].data = <<FC_WSR1, 0>>
        /\ WsrAt + 2 <= Len(trace)
        /\ trace[WsrAt + 1].op = "WAITED" /\ trace[WsrAt + 1].a = 0
        /\ trace[WsrAt + 2].op = "RSR1"
        /\ \A i \in DOMAIN trace : trace[i].op = "WARN" => i = WsrAt + 3
        /\ (~dont_erase /\ (bulk_erase \/ begin_addr < end_addr)) =>
              \E i \in DOMAIN trace : i > WsrAt + 2 /\ trace[i].op \in EraseOps
        /\ (~erase_mode /\ FileLen > 0) =>
              /\ \E i \in DOMAIN trace : i > WsrAt + 2 /\ trace[i].op = "PP"
              /\ SumN(Only({"PP"}), Len(Only({"PP"}))) = FileLen

\* the read-back was not 0x00: the warning, then the erase and the page
\* program all the same
C29_Witness ==
    /\ pc = "done" /\ disable_protect
    /\ m.mpsse_error_last = 0
    /\ WsrAt > 0 /\ WsrAt + 3 <= Len(trace)
    /\ trace[WsrAt + 3].op = "WARN" /\ trace[WsrAt + 3].a # 0
    /\ \E i \in DOMAIN trace : i > WsrAt + 3 /\ trace[i].op \in EraseOps
    /\ \E i \in DOMAIN trace : i > WsrAt + 3 /\ trace[i].op = "PP"

\* the first `bits` bits of the input buffer of shift s, taken from bit 0
\* of each byte upwards, are all ones
DrivenOnes(s) ==
    \A j \in 0..(s.bits - 1) : (s.tdi[j \div 8 + 1] \div Pow2(j % 8)) % 2 = 1

\* C30: flash_reset makes three separate DR scans of 64, 2 and 8 bits, each
\* made in Shift-DR and left on its last bit, and the TDI bits it drives in
\* all three scans are ones whatever level TDO has.
C30_FlashResetDrivesOnes ==
    (pc = "reset_done") =>
        /\ Len(trace[Len(trace)].sh) = 3
        /\ \A i \in 1..3 :
              /\ trace[Len(trace)].sh[i].bits = <<64, 2, 8>>[i]
              /\ trace[Len(trace)].sh[i].st = STATE_SHIFT_DR
              /\ trace[Len(trace)].sh[i].end
              /\ DrivenOnes(trace[Len(trace)].sh[i])

\* C31: each page program is one chip-select-low transaction: the PP opcode
\* and the three address bytes are shifted in Shift-DR and leave the TAP
\* there, the n data bytes follow with no TMS transition in between, and the
\* TAP leaves Shift-DR on the last data bit.
C31_PageProgramIsOneTransaction ==
    pc = "done" =>
        \A i \in DOMAIN trace :
            trace[i].op = "PP" =>
                /\ trace[i].data = AddrCmd(FC_PP, trace[i].a)
                /\ trace[i].bits = 32
                /\ trace[i].st1 = STATE_SHIFT_DR
                /\ i < Len(trace)
                /\ trace[i + 1].op = "DATA"
                /\ trace[i + 1].n = trace[i].n
                /\ trace[i + 1].bits = trace[i].n * 8
                /\ trace[i + 1].st0 = STATE_SHIFT_DR
                /\ trace[i + 1].tms = <<>>
                /\ trace[i + 1].st1 = STATE_EXIT1_DR

\* 400 bytes at offset 100: two page programs, the second entered from
\* Exit1-DR after the wait of the first
C31_Witness ==
    /\ pc = "done"
    /\ m.mpsse_error_last = 0
    /\ Len(Only({"PP"})) = 2
    /\ Only({"PP"})[2].st0 = STATE_EXIT1_DR
    /\ Only({"PP"})[2].tms = TmsPath(STATE_EXIT1_DR, STATE_SHIFT_DR)
    /\ Len(Only({"PP"})[2].tms) > 0
    /\ Only({"DATA"})[2].n = 244
    /\ Only({"DATA"})[2].st1 = STATE_EXIT1_DR

\* the address that the three bytes after the opcode of e encode
SentAddr(e) == e.data[2] * 65536 + e.data[3] * 256 + e.data[4]

\* C32: for every accepted offset and size, the three address bytes sent
\* with an erase, program or read command encode the whole target address:
\* no address of 2^24 or more is cut to its low 24 bits.
C32_AddressBytesEncodeAddress ==
    \A i \in DOMAIN trace :
        trace[i].op \in {"SE", "BE32", "BE64", "PP", "RD"} =>
            /\ Len(trace[i].data) = 4
            /\ SentAddr(trace[i]) = trace[i].a

\* C33: in any run ftdi_usb_close is called at most once and ftdi_deinit at
\* most once, also when one or more transport errors occur before the close
\* at the end of the run.
C33_ClosedAndReleasedOnce ==
    /\ m.usbCloses <= 1
    /\ m.deinits <= 1

\* C34: the verify pass reports VERIFY OK only if every byte of the file
\* was compared with the flash and no comparison found a difference.
C34_VerifyOkOnlyIfEqual ==
    (\E i \in DOMAIN trace : trace[i].op = "VERIFY_OK") =>
        /\ SumN(Only({"CMP"}), Len(Only({"CMP"}))) = FileLen
        /\ \A i \in DOMAIN trace : trace[i].op # "ERR"

\* C35: while the bitstream is streamed, no TMS transition is emitted
\* between two consecutive chunks and the TAP stays in the DR shift: the
\* chunks follow one another with nothing in between, each chunk after the
\* first starts in the state the one before it ended in, which is not
\* Exit1-DR or Update-DR and from which a clock with TMS low shifts DR; the
\* DR column is left only by the ISC_DISABLE that follows the last chunk.
C35_ChunksFormOneScan ==
    (pc = "done" /\ prog_sram) =>
        \A i \in DOMAIN trace :
            (trace[i].op = "BITS" /\ i < Len(trace)) =>
                /\ trace[i].st1 \notin {STATE_EXIT1_DR, STATE_UPDATE_DR}
                /\ TapNext(trace[i].st1, 0) = STATE_SHIFT_DR
                /\ IF trace[i + 1].op = "BITS"
                   THEN /\ trace[i + 1].tms = <<>>
                        /\ trace[i + 1].st0 = trace[i].st1
                   ELSE trace[i + 1].op = "IR" /\ trace[i + 1].a = ISC_DISABLE

\* a bitstream of 40000 bytes went out in three chunks, the transport
\* working throughout
C35_Witness ==
    /\ pc = "done" /\ prog_sram
    /\ m.mpsse_error_last = 0
    /\ [i \in 1..Len(Chunks) |-> Chunks[i].n] = <<SramChunk, SramChunk, 7232>>
    /\ Chunks[1].tms = <<1, 0>>
    /\ Chunks[3].tms = <<>>

\* C36: flash_wait has no bound on its polls: it returns if the flash from
\* some time on reports idle (three consecutive idle polls then follow), and
\* it never returns while the flash keeps reporting busy to a working
\* transport.
C36_WaitEndsIffIdle ==
    /\ <>[](busyLeft = 0) => <>(pc = "w_done")
    /\ [](busyLeft = 1 /\ m.mpsse_error_last = 0) => [](pc = "wait")

\* a wait that returned after MaxPolls polls or more, its last three idle
C36_Witness ==
    /\ pc = "w_done"
    /\ addr = MaxPolls
    /\ polls = <<0, 0, 0>>
    /\ m.mpsse_error_last = 0
    /\ Last(trace).op = "WAITED"

\* the step at which mpsse_init failed, 0 if it has not run or did not fail
FailedStep ==
    IF Len(trace) > 0 /\ trace[1].op = "INIT" THEN trace[1].n ELSE 0

====
